---- MODULE Spec2Model ----
(***************************************************************************)
(* Pulse ingestion and synchronisation engine: the scraper's add / update  *)
(* / remove / bulk-sync workflows over the relational store               *)
(* (src/scraper.py, src/database), the viral alerting path                 *)
(* (src/services/telegram_notifier.py) and the rate-limited API client     *)
(* (src/services/tiktok_client.py).                                        *)
(***************************************************************************)
EXTENDS Integers, Sequences, FiniteSets, TLC

\* ------------------------------------------------------------------ bounds
MaxPosts == 2        \* longest content list the remote API returns
MaxOps == 3          \* engine operations started in one behaviour
MaxCallers == 2      \* coroutines calling the API client concurrently
MaxRequests == 2     \* requests each caller issues
MaxLockRequests == 1 \* requests each caller issues where lock waiters are followed

\* ------------------------------------------------------- program constants
VIRAL_THRESHOLD_MULTIPLIER == 5
MAX_RETRIES == 3
BACKOFF_BASE == 5
PRE_REQUEST_DELAY == 2

\* ------------------------------------------------------------ value domains
Tasks == {"t1"}
PostIds == {"p1", "p2", "p3", "p4", "p5", "p6"}
NoUserId == ""
RawHandles == {<<"a">>, <<"@", "A">>, <<" ", "b">>}
SupportedPlatforms == {"tiktok", "twitter", "reddit"}

\* ------------------------------------------------------------ pure helpers
RECURSIVE SeqSum(_)
SeqSum(s) == IF s = <<>> THEN 0 ELSE Head(s) + SeqSum(Tail(s))

RECURSIVE Gcd(_, _)
Gcd(a, b) == IF b = 0 THEN a ELSE Gcd(b, a % b)

\* A rational s/n in lowest terms (n >= 1); the float the code stores.
Ratio(s, n) == LET g == Gcd(s, n) IN [s |-> s \div g, n |-> n \div g]
ZeroAvg == [s |-> 0, n |-> 1]

Lower(c) == IF c = "A" THEN "a" ELSE IF c = "B" THEN "b" ELSE c

RECURSIVE LStripAt(_)
LStripAt(s) == IF s # <<>> /\ Head(s) = "@" THEN LStripAt(Tail(s)) ELSE s

RECURSIVE LStripWs(_)
LStripWs(s) == IF s # <<>> /\ Head(s) = " " THEN LStripWs(Tail(s)) ELSE s

RECURSIVE RStripWs(_)
RStripWs(s) ==
    IF s # <<>> /\ s[Len(s)] = " " THEN RStripWs(SubSeq(s, 1, Len(s) - 1)) ELSE s

\* username.lstrip("@").strip().lower()
NormalizeHandle(raw) ==
    LET t == RStripWs(LStripWs(LStripAt(raw)))
    IN [i \in 1..Len(t) |-> Lower(t[i])]

\* A variant that takes the mean over every item, those without views too.
CalculateAverageViewsOverAll(posts) ==
    LET all == [i \in 1..Len(posts) |-> posts[i].view_count]
    IN IF posts = <<>> THEN ZeroAvg
       ELSE Ratio(SeqSum(all), Len(all))

\* _calculate_average_views: mean of the strictly positive view counts, 0.0
\* for an empty list or when every count is 0.
CalculateAverageViews(posts) ==
    LET pos == SelectSeq([i \in 1..Len(posts) |-> posts[i].view_count],
                         LAMBDA v : v > 0)
    IN IF posts = <<>> \/ pos = <<>> THEN ZeroAvg
       ELSE Ratio(SeqSum(pos), Len(pos))

\* A variant with >= in place of >.
IsViralAtLeast(view_count, avg) ==
    view_count * avg.n >= avg.s * VIRAL_THRESHOLD_MULTIPLIER

\* view_count > avg_views * self.viral_threshold
IsViral(view_count, avg) ==
    view_count * avg.n > avg.s * VIRAL_THRESHOLD_MULTIPLIER

Abs(x) == IF x < 0 THEN -x ELSE x

\* A variant that also counts a change of exactly 10%.
ViewsChangedAtLeastTenPercent(old_views, new_views) ==
    old_views > 0 /\ 10 * Abs(new_views - old_views) >= old_views

\* old_views > 0 and abs(new - old) / old > 0.1
ViewsChangedSignificantly(old_views, new_views) ==
    old_views > 0 /\ 10 * Abs(new_views - old_views) > old_views

\* ------------------------------------------------------------------- state
VARIABLES
    profiles,         \* profiles table (Profile rows; the row id is the index)
    profile_history,  \* profile_history table (ProfileHistory rows)
    posts,            \* posts table (Post rows; the row id is the index)
    post_history,     \* post_history table (PostHistory rows)
    alert_logs,       \* alert_logs table (AlertLog rows)
    tk,               \* per task: position and locals of the running operation
    ret,              \* per task: outcome of the last finished operation
    opsLeft,          \* operations that may still be started
    sent,             \* per content id: calls of telegram.send_viral_alert
    lock_holder,      \* _global_api_lock: the coroutine holding it, or "none"
    lock_waiters,     \* _global_api_lock: FIFO queue of waiting coroutines
    cl                \* per API-client caller: position and locals of _make_request

dbvars == <<profiles, profile_history, posts, post_history, alert_logs>>
evars == <<profiles, profile_history, posts, post_history, alert_logs,
           tk, ret, opsLeft, sent>>
cvars == <<lock_holder, lock_waiters, cl>>
vars == <<profiles, profile_history, posts, post_history, alert_logs,
          tk, ret, opsLeft, sent, lock_holder, lock_waiters, cl>>

\* ------------------------------------------------------------ remote data
\* A remote R = [user_ids, stats, post_ids, views, repeats] is what the remote
\* API can answer with; R.post_ids gives, per handle, the content ids of that
\* account. fetch_profile returns the secUid, the uniqueId (the API answers
\* for the handle it was asked about) and the counters.
RemoteProfiles(username, R) ==
    {[user_id |-> u, username |-> username,
      followers |-> st.followers, likes |-> st.likes] :
        u \in R.user_ids, st \in R.stats}

NoData == [user_id |-> NoUserId, username |-> <<>>, followers |-> 0, likes |-> 0]

\* What fetch_recent_posts_by_id returns for an account: any list of at most
\* MaxPosts of its posts; R.repeats says whether the remote may list one
\* content id twice. A remote that names its lists (R.lists) returns those.
PostLists(username, R) ==
    IF "lists" \in DOMAIN R THEN R.lists ELSE
    {pl \in UNION {[1..n -> [post_id : R.post_ids[username], view_count : R.views]] :
                      n \in 0..MaxPosts} :
        R.repeats \/ \A i, j \in 1..Len(pl) : pl[i].post_id = pl[j].post_id => i = j}

\* ---------------------------------------------------------- store queries
\* db.query(Profile).filter(Profile.username == username).first(): the row id,
\* 0 when there is none.
FirstProfileByUsername(profs, username) ==
    LET hits == {i \in 1..Len(profs) : profs[i].username = username}
    IN IF hits = {} THEN 0 ELSE CHOOSE i \in hits : \A j \in hits : i <= j

\* db.query(Post).filter(Post.tiktok_post_id == post_id).first()
FirstPostByPostId(ps, post_id) ==
    LET hits == {i \in 1..Len(ps) : ps[i].post_id = post_id}
    IN IF hits = {} THEN 0 ELSE CHOOSE i \in hits : \A j \in hits : i <= j

\* ------------------------------------------------------------ task records
NoResults == [success |-> 0, failed |-> 0, by_platform |-> <<>>]

IdleTask ==
    [pc |-> "idle", op |-> "none", caller |-> "top", by_id |-> FALSE,
     username |-> <<>>, profile_id |-> 0, cached_user_id |-> NoUserId,
     old_follower_count |-> 0, old_likes |-> 0, old_avg_views |-> ZeroAvg,
     profile_data |-> NoData, posts_data |-> <<>>, posts_user_id |-> NoUserId,
     viral_posts |-> <<>>, committed |-> FALSE,
     pending_flags |-> {}, pending_logs |-> <<>>,
     send_notification |-> FALSE, reactivated |-> FALSE,
     loaded |-> <<>>, todo |-> <<>>, attempted |-> <<>>, observed |-> <<>>,
     results |-> NoResults]

\* The outcome of an operation: what it returned ("profile", "None", "True",
\* "False", "results") or "raised"; for the bulk update also the counts, the
\* accounts it loaded, those it called update_profile_by_id for and how each
\* fetch and commit went, for remove_profile whether it turned an active
\* row inactive, for a unit of work that raised the statement that did, and
\* for a call through ScraperFactory the operation, the platform and the
\* exception raised, and for an add that stored a new account its row id, the
\* number of items it stored and how the welcome notification went.
Returned(kind) ==
    [kind |-> kind, results |-> NoResults, loaded |-> <<>>, attempted |-> <<>>,
     observed |-> <<>>, deactivated |-> FALSE, failed_step |-> "none",
     op |-> "none", platform |-> "none", error |-> "none",
     profile_id |-> 0, posts_saved |-> 0, welcome |-> "none"]

NoRet == Returned("none")

\* A variant that stores an item found viral at insert as alerted on.
CreatePostRecordMarksAlerted(profile_id, post_data, avg_views) ==
    [profile_id |-> profile_id,
     post_id |-> post_data.post_id,
     view_count |-> post_data.view_count,
     is_viral |-> IsViral(post_data.view_count, avg_views),
     viral_alert_sent |-> IsViral(post_data.view_count, avg_views)]

\* ------------------------------------------------- _create_post_record
CreatePostRecord(profile_id, post_data, avg_views) ==
    [profile_id |-> profile_id,
     post_id |-> post_data.post_id,
     view_count |-> post_data.view_count,
     is_viral |-> IsViral(post_data.view_count, avg_views),
     viral_alert_sent |-> FALSE]

\* ---------------------------------------------------------- _upsert_post
\* A variant that records a PostHistory on every update of a row.
UpsertPostAlwaysSnapshots(st, profile_id, post_data, avg_views) ==
    LET is_viral == IsViral(post_data.view_count, avg_views)
        existing == FirstPostByPostId(st.posts, post_data.post_id)
    IN IF existing # 0
       THEN LET old == st.posts[existing]
                upd == [old EXCEPT !.view_count = post_data.view_count,
                                   !.is_viral = old.is_viral \/ is_viral]
            IN [posts |-> [st.posts EXCEPT ![existing] = upd],
                post_history |->
                    Append(st.post_history,
                           [post |-> existing, view_count |-> post_data.view_count]),
                is_new |-> FALSE,
                should_alert |-> is_viral /\ ~old.viral_alert_sent,
                row |-> existing]
       ELSE [posts |-> Append(st.posts, CreatePostRecord(profile_id, post_data, avg_views)),
             post_history |-> st.post_history,
             is_new |-> TRUE,
             should_alert |-> is_viral,
             row |-> Len(st.posts) + 1]

\* A variant that stores the outcome of the comparison as the flag, either way.
UpsertPostOverwritesViral(st, profile_id, post_data, avg_views) ==
    LET is_viral == IsViral(post_data.view_count, avg_views)
        existing == FirstPostByPostId(st.posts, post_data.post_id)
    IN IF existing # 0
       THEN LET old == st.posts[existing]
                upd == [old EXCEPT !.view_count = post_data.view_count,
                                   !.is_viral = is_viral]
            IN [posts |-> [st.posts EXCEPT ![existing] = upd],
                post_history |->
                    IF ViewsChangedSignificantly(old.view_count, post_data.view_count)
                    THEN Append(st.post_history,
                                [post |-> existing, view_count |-> post_data.view_count])
                    ELSE st.post_history,
                is_new |-> FALSE,
                should_alert |-> is_viral /\ ~old.viral_alert_sent,
                row |-> existing]
       ELSE [posts |-> Append(st.posts, CreatePostRecord(profile_id, post_data, avg_views)),
             post_history |-> st.post_history,
             is_new |-> TRUE,
             should_alert |-> is_viral,
             row |-> Len(st.posts) + 1]

\* A variant that clears the alert flag of a row seen below the threshold.
UpsertPostClearsAlertSent(st, profile_id, post_data, avg_views) ==
    LET is_viral == IsViral(post_data.view_count, avg_views)
        existing == FirstPostByPostId(st.posts, post_data.post_id)
    IN IF existing # 0
       THEN LET old == st.posts[existing]
                upd == [old EXCEPT !.view_count = post_data.view_count,
                                   !.is_viral = old.is_viral \/ is_viral,
                                   !.viral_alert_sent = @ /\ is_viral]
            IN [posts |-> [st.posts EXCEPT ![existing] = upd],
                post_history |->
                    IF ViewsChangedSignificantly(old.view_count, post_data.view_count)
                    THEN Append(st.post_history,
                                [post |-> existing, view_count |-> post_data.view_count])
                    ELSE st.post_history,
                is_new |-> FALSE,
                should_alert |-> is_viral /\ ~old.viral_alert_sent,
                row |-> existing]
       ELSE [posts |-> Append(st.posts, CreatePostRecord(profile_id, post_data, avg_views)),
             post_history |-> st.post_history,
             is_new |-> TRUE,
             should_alert |-> is_viral,
             row |-> Len(st.posts) + 1]

\* On the session's view st = [posts, post_history]; returns the new view, the
\* alert eligibility (the tuple's second member) and the row.
UpsertPost(st, profile_id, post_data, avg_views) ==
    LET is_viral == IsViral(post_data.view_count, avg_views)
        existing == FirstPostByPostId(st.posts, post_data.post_id)
    IN IF existing # 0
       THEN LET old == st.posts[existing]
                upd == [old EXCEPT !.view_count = post_data.view_count,
                                   !.is_viral = old.is_viral \/ is_viral]
            IN [posts |-> [st.posts EXCEPT ![existing] = upd],
                post_history |->
                    IF ViewsChangedSignificantly(old.view_count, post_data.view_count)
                    THEN Append(st.post_history,
                                [post |-> existing, view_count |-> post_data.view_count])
                    ELSE st.post_history,
                is_new |-> FALSE,
                should_alert |-> is_viral /\ ~old.viral_alert_sent,
                row |-> existing]
       ELSE [posts |-> Append(st.posts, CreatePostRecord(profile_id, post_data, avg_views)),
             post_history |-> st.post_history,
             is_new |-> TRUE,
             should_alert |-> is_viral,
             row |-> Len(st.posts) + 1]

\* The loop "for post_data in posts_data: _upsert_post(...)" of the update
\* cycle: the session's view after the first k items and the viral_posts list.
RECURSIVE UpsertAll(_, _, _, _, _)
UpsertAll(st, profile_id, posts_data, avg_views, k) ==
    IF k = 0 THEN [posts |-> st.posts, post_history |-> st.post_history,
                   viral_posts |-> <<>>]
    ELSE LET prev == UpsertAll(st, profile_id, posts_data, avg_views, k - 1)
             r == UpsertPost(prev, profile_id, posts_data[k], avg_views)
         IN [posts |-> r.posts, post_history |-> r.post_history,
             viral_posts |->
                 IF r.should_alert
                 THEN Append(prev.viral_posts,
                             [post_data |-> posts_data[k], row |-> r.row])
                 ELSE prev.viral_posts]

\* ------------------------------------------------- get_db_context / commit
\* session.commit(): the session's view becomes the stored state.
Commit(view) ==
    /\ profiles' = view.profiles
    /\ profile_history' = view.profile_history
    /\ posts' = view.posts
    /\ post_history' = view.post_history
    /\ alert_logs' = view.alert_logs

\* session.rollback(): nothing of the unit of work is stored.
Rollback == UNCHANGED dbvars

Stored ==
    [profiles |-> profiles, profile_history |-> profile_history, posts |-> posts,
     post_history |-> post_history, alert_logs |-> alert_logs]

\* ------------------------------------------------------------ bulk results
EmptyCounts == [p \in {} |-> [success |-> 0, failed |-> 0]]

CountSuccess(results, platform) ==
    [results EXCEPT !.success = @ + 1, !.by_platform[platform].success = @ + 1]

CountFailed(results, platform, n) ==
    [results EXCEPT !.failed = @ + n, !.by_platform[platform].failed = @ + n]

\* A variant in which an exception of one account ends the loop.
SyncCountedStopsOnFailure(rec, outcome) ==
    LET platform == Head(rec.todo).platform
    IN [IdleTask EXCEPT
           !.pc = "sync_loop", !.op = rec.op, !.caller = "sync",
           !.loaded = rec.loaded,
           !.todo = IF outcome = "raised" THEN <<>> ELSE Tail(rec.todo),
           !.attempted = rec.attempted, !.observed = rec.observed,
           !.results = IF outcome = "raised"
                       THEN CountFailed(rec.results, platform, 1)
                       ELSE CountSuccess(rec.results, platform)]

\* update_all_profiles after one account: the cycle's locals are gone, the
\* account is counted (a raised exception as failed, any return as success)
\* and the loop moves on.
SyncCounted(rec, outcome) ==
    LET platform == Head(rec.todo).platform
    IN [IdleTask EXCEPT
           !.pc = "sync_loop", !.op = rec.op, !.caller = "sync",
           !.loaded = rec.loaded, !.todo = Tail(rec.todo),
           !.attempted = rec.attempted, !.observed = rec.observed,
           !.results = IF outcome = "raised"
                       THEN CountFailed(rec.results, platform, 1)
                       ELSE CountSuccess(rec.results, platform)]

\* An update cycle (or an add) ends with outcome "profile", "None" or "raised":
\* the bulk loop counts it, any other caller gets it as its own outcome.
Finish(t, outcome) ==
    IF tk[t].caller = "sync"
    THEN /\ tk' = [tk EXCEPT ![t] = SyncCounted(tk[t], outcome)]
         /\ UNCHANGED ret
    ELSE /\ tk' = [tk EXCEPT ![t] = IdleTask]
         /\ ret' = [ret EXCEPT ![t] = Returned(outcome)]

\* The same for an update cycle, which the bulk loop also notes by how it
\* ended: "updated", "TikTokAPIError", "other exception" or "commit failed".
FinishObserved(t, outcome, what) ==
    IF tk[t].caller = "sync"
    THEN /\ tk' = [tk EXCEPT ![t] =
                      SyncCounted([tk[t] EXCEPT !.observed = Append(@, what)], outcome)]
         /\ UNCHANGED ret
    ELSE Finish(t, outcome)

\* The statements of a unit of work that can raise before the block is left:
\* the Profile insert or overwrite, the ProfileHistory insert, the insert or
\* upsert of a fetched item (when there is one), and db.commit() itself.
UnitSteps(rec) ==
    {"profile", "history", "commit"} \cup
        (IF rec.posts_data # <<>> THEN {"post"} ELSE {})

\* A unit of work raised at step: the exception leaves the with block, so
\* get_db_context rolls the session back (connection.py lines 114-117) and
\* the exception leaves the operation.
FinishRolledBack(t, step) ==
    IF tk[t].caller = "sync"
    THEN FinishObserved(t, "raised", "commit failed")
    ELSE /\ tk' = [tk EXCEPT ![t] = IdleTask]
         /\ ret' = [ret EXCEPT ![t] = [Returned("raised") EXCEPT !.failed_step = step]]

\* update_profile / update_profile_by_id, first block: the locals captured from
\* the stored row before the fetch.
BeginUpdate(rec, op, caller, by_id, id, profs) ==
    [rec EXCEPT
        !.pc = "upd_fetch", !.op = op, !.caller = caller, !.by_id = by_id,
        !.profile_id = id,
        !.username = profs[id].username,
        !.cached_user_id = profs[id].tiktok_user_id,
        !.old_follower_count = profs[id].follower_count,
        !.old_likes = profs[id].total_likes,
        !.old_avg_views = profs[id].average_post_views]

\* ------------------------------------------------------------- add_profile
\* A variant without the lookup of lines 158-169: every call adds.
AddProfileWithoutLookup(t, raw, notify) ==
    /\ tk[t].pc = "idle"
    /\ opsLeft > 0
    /\ opsLeft' = opsLeft - 1
    /\ tk' = [tk EXCEPT ![t] =
                 [IdleTask EXCEPT !.pc = "add_fetch", !.op = "add_profile",
                                  !.username = NormalizeHandle(raw),
                                  !.send_notification = notify]]
    /\ ret' = [ret EXCEPT ![t] = NoRet]
    /\ UNCHANGED <<cvars, dbvars, sent>>

\* A variant that updates an existing row without reactivating it.
AddProfileWithoutReactivation(t, raw, notify) ==
    /\ tk[t].pc = "idle"
    /\ opsLeft > 0
    /\ opsLeft' = opsLeft - 1
    /\ LET username == NormalizeHandle(raw)
           existing == FirstProfileByUsername(profiles, username)
       IN IF existing # 0
          THEN tk' = [tk EXCEPT ![t] =
                         BeginUpdate([IdleTask EXCEPT !.reactivated =
                                                          ~profiles[existing].is_active],
                                     "add_profile", "add", FALSE, existing, profiles)]
          ELSE tk' = [tk EXCEPT ![t] =
                         [IdleTask EXCEPT !.pc = "add_fetch", !.op = "add_profile",
                                          !.username = username,
                                          !.send_notification = notify]]
    /\ ret' = [ret EXCEPT ![t] = NoRet]
    /\ UNCHANGED <<cvars, dbvars, sent>>

\* Lines 155-169: normalise, look the handle up; an existing row is
\* reactivated when inactive (its db.commit() of line 165 may raise, which
\* rolls back and ends the call) and the call continues as update_profile.
AddProfile(t, raw, notify) ==
    /\ tk[t].pc = "idle"
    /\ opsLeft > 0
    /\ opsLeft' = opsLeft - 1
    /\ LET username == NormalizeHandle(raw)
           existing == FirstProfileByUsername(profiles, username)
       IN IF existing # 0
          THEN LET profs == [profiles EXCEPT ![existing].is_active = TRUE]
               IN \/ /\ profiles' = profs
                     /\ tk' = [tk EXCEPT ![t] =
                                  BeginUpdate(
                                      [IdleTask EXCEPT !.reactivated =
                                                           ~profiles[existing].is_active],
                                      "add_profile", "add", FALSE, existing, profs)]
                     /\ ret' = [ret EXCEPT ![t] = NoRet]
                  \/ /\ ~profiles[existing].is_active
                     /\ UNCHANGED profiles
                     /\ tk' = [tk EXCEPT ![t] = IdleTask]
                     /\ ret' = [ret EXCEPT ![t] = Returned("raised")]
          ELSE /\ UNCHANGED profiles
               /\ tk' = [tk EXCEPT ![t] =
                            [IdleTask EXCEPT !.pc = "add_fetch", !.op = "add_profile",
                                             !.username = username,
                                             !.send_notification = notify]]
               /\ ret' = [ret EXCEPT ![t] = NoRet]
    /\ UNCHANGED <<cvars, profile_history, posts, post_history, alert_logs, sent>>

\* Lines 171-193: fetch_profile, then fetch_recent_posts_by_id with the secUid
\* just fetched. Any failure of either fetch leaves add_profile as an exception
\* (a TikTokAPIError is logged and re-raised).
AddFetch(t, R) ==
    /\ tk[t].pc = "add_fetch"
    /\ \/ \E pd \in RemoteProfiles(tk[t].username, R), pl \in PostLists(tk[t].username, R) :
            /\ tk' = [tk EXCEPT ![t] = [@ EXCEPT !.pc = "add_save",
                                                 !.profile_data = pd,
                                                 !.posts_data = pl,
                                                 !.posts_user_id = pd.user_id]]
            /\ UNCHANGED ret
       \/ Finish(t, "raised")
    /\ UNCHANGED <<cvars, dbvars, opsLeft, sent>>

\* Lines 195-238: one unit of work inserting the Profile, its first
\* ProfileHistory and one Post per fetched item, then db.commit().
AddSaveView(rec) ==
    LET avg_views == CalculateAverageViews(rec.posts_data)
        id == Len(profiles) + 1
        profile == [username |-> rec.profile_data.username,
                    platform |-> "tiktok",
                    is_active |-> TRUE,
                    tiktok_user_id |-> rec.profile_data.user_id,
                    follower_count |-> rec.profile_data.followers,
                    total_likes |-> rec.profile_data.likes,
                    average_post_views |-> avg_views]
        history == [profile_id |-> id,
                    follower_count |-> profile.follower_count,
                    total_likes |-> profile.total_likes,
                    follower_change |-> 0,
                    likes_change |-> 0]
    IN [profiles |-> Append(profiles, profile),
        profile_history |-> Append(profile_history, history),
        posts |-> posts \o [i \in 1..Len(rec.posts_data) |->
                               CreatePostRecord(id, rec.posts_data[i], avg_views)],
        post_history |-> post_history,
        alert_logs |-> alert_logs]

AddSave(t) ==
    /\ tk[t].pc = "add_save"
    /\ \/ /\ Commit(AddSaveView(tk[t]))
          /\ tk' = [tk EXCEPT ![t] = [@ EXCEPT !.pc = "add_notify",
                                               !.profile_id = Len(profiles) + 1,
                                               !.committed = TRUE]]
          /\ UNCHANGED ret
       \/ /\ Rollback
          /\ \E step \in UnitSteps(tk[t]) : FinishRolledBack(t, step)
    /\ UNCHANGED <<cvars, opsLeft, sent>>

\* What add_profile returns after its commit.
AddedProfile(rec, outcome) ==
    [Returned("profile") EXCEPT
        !.profile_id = rec.profile_id,
        !.posts_saved = Len(rec.posts_data),
        !.welcome = outcome]

\* A variant in which an exception of the welcome notification leaves
\* add_profile.
AddNotifyPropagates(t) ==
    /\ tk[t].pc = "add_notify"
    /\ \E outcome \in {"ok", "not_ok", "exception", "skipped"} :
          /\ (outcome = "skipped") = ~tk[t].send_notification
          /\ ret' = [ret EXCEPT ![t] =
                        IF outcome = "exception"
                        THEN [AddedProfile(tk[t], outcome) EXCEPT !.kind = "raised"]
                        ELSE AddedProfile(tk[t], outcome)]
    /\ tk' = [tk EXCEPT ![t] = IdleTask]
    /\ UNCHANGED <<cvars, dbvars, opsLeft, sent>>

\* Lines 254-267: the welcome notification, when asked for; whatever it
\* returns or raises, add_profile returns the profile.
AddNotify(t) ==
    /\ tk[t].pc = "add_notify"
    /\ \E outcome \in {"ok", "not_ok", "exception", "skipped"} :
          /\ (outcome = "skipped") = ~tk[t].send_notification
          /\ ret' = [ret EXCEPT ![t] = AddedProfile(tk[t], outcome)]
    /\ tk' = [tk EXCEPT ![t] = IdleTask]
    /\ UNCHANGED <<cvars, dbvars, opsLeft, sent>>

\* ---------------------------------------------------------- update_profile
\* Lines 281-295: normalise, look the handle up; None when there is no row.
UpdateProfile(t, raw) ==
    /\ tk[t].pc = "idle"
    /\ opsLeft > 0
    /\ opsLeft' = opsLeft - 1
    /\ LET username == NormalizeHandle(raw)
           id == FirstProfileByUsername(profiles, username)
       IN IF id = 0
          THEN /\ tk' = [tk EXCEPT ![t] = IdleTask]
               /\ ret' = [ret EXCEPT ![t] = Returned("None")]
          ELSE /\ tk' = [tk EXCEPT ![t] =
                            BeginUpdate(IdleTask, "update_profile", "top", FALSE,
                                        id, profiles)]
               /\ ret' = [ret EXCEPT ![t] = NoRet]
    /\ UNCHANGED <<cvars, dbvars, sent>>

\* update_profile_by_id, lines 395-406: None when there is no row with the id.
UpdateProfileById(t, id) ==
    /\ tk[t].pc = "idle"
    /\ opsLeft > 0
    /\ opsLeft' = opsLeft - 1
    /\ IF id \notin 1..Len(profiles)
       THEN /\ tk' = [tk EXCEPT ![t] = IdleTask]
            /\ ret' = [ret EXCEPT ![t] = Returned("None")]
       ELSE /\ tk' = [tk EXCEPT ![t] =
                         BeginUpdate(IdleTask, "update_profile_by_id", "top", TRUE,
                                     id, profiles)]
            /\ ret' = [ret EXCEPT ![t] = NoRet]
    /\ UNCHANGED <<cvars, dbvars, sent>>

\* A variant whose posts fetch always goes out with the secUid just fetched,
\* cached or not.
UpdFetchIgnoresCache(t, R) ==
    /\ tk[t].pc = "upd_fetch"
    /\ \/ \E pd \in RemoteProfiles(tk[t].username, R), pl \in PostLists(tk[t].username, R) :
            /\ tk' = [tk EXCEPT ![t] =
                         [@ EXCEPT !.pc = "upd_write",
                                   !.profile_data = pd,
                                   !.posts_data = pl,
                                   !.posts_user_id = pd.user_id,
                                   !.cached_user_id =
                                       IF tk[t].by_id THEN pd.user_id
                                       ELSE tk[t].cached_user_id]]
            /\ UNCHANGED ret
       \/ FinishObserved(t, "None", "TikTokAPIError")
       \/ FinishObserved(t, "raised", "other exception")
    /\ UNCHANGED <<cvars, dbvars, opsLeft, sent>>

\* The fetch of an update cycle (update_profile lines 297-322,
\* update_profile_by_id lines 410-437). fetch_profile, then the posts fetch:
\* with the cached secUid when there is one; else update_profile uses the
\* secUid just fetched and update_profile_by_id resolves the handle again
\* (fetch_recent_posts) and takes that secUid as the cached one.
\* A TikTokAPIError of either fetch is caught and the cycle returns None; any
\* other exception (RateLimitError, or an error raised while the response is
\* parsed, such as the AttributeError of datetime.now(datetime.UTC) in
\* _parse_posts_response) leaves the cycle as an exception.
UpdFetch(t, R) ==
    /\ tk[t].pc = "upd_fetch"
    /\ \/ \E pd \in RemoteProfiles(tk[t].username, R), pl \in PostLists(tk[t].username, R),
             resolved \in R.user_ids :
            LET cached == tk[t].cached_user_id
                used == IF cached # NoUserId THEN cached
                        ELSE IF tk[t].by_id THEN resolved ELSE pd.user_id
            IN /\ (cached # NoUserId \/ ~tk[t].by_id) => resolved = pd.user_id
               /\ tk' = [tk EXCEPT ![t] =
                            [@ EXCEPT !.pc = "upd_write",
                                      !.profile_data = pd,
                                      !.posts_data = pl,
                                      !.posts_user_id = used,
                                      !.cached_user_id =
                                          IF tk[t].by_id THEN used ELSE cached]]
               /\ UNCHANGED ret
       \/ FinishObserved(t, "None", "TikTokAPIError")
       \/ FinishObserved(t, "raised", "other exception")
    /\ UNCHANGED <<cvars, dbvars, opsLeft, sent>>

\* A variant that takes the deltas of the ProfileHistory after the overwrite.
UpdWriteViewDeltasAgainstNew(rec) ==
    LET id == rec.profile_id
        pd == rec.profile_data
        new_avg_views == CalculateAverageViews(rec.posts_data)
        profile == [profiles[id] EXCEPT
                       !.tiktok_user_id =
                           IF rec.by_id
                           THEN (IF rec.cached_user_id # NoUserId
                                 THEN rec.cached_user_id ELSE pd.user_id)
                           ELSE pd.user_id,
                       !.follower_count = pd.followers,
                       !.total_likes = pd.likes,
                       !.average_post_views = new_avg_views]
        history == [profile_id |-> id,
                    follower_count |-> profile.follower_count,
                    total_likes |-> profile.total_likes,
                    follower_change |-> profile.follower_count - profile.follower_count,
                    likes_change |-> profile.total_likes - profile.total_likes]
        up == UpsertAll([posts |-> posts, post_history |-> post_history], id,
                        rec.posts_data, rec.old_avg_views, Len(rec.posts_data))
    IN [profiles |-> [profiles EXCEPT ![id] = profile],
        profile_history |-> Append(profile_history, history),
        posts |-> up.posts,
        post_history |-> up.post_history,
        alert_logs |-> alert_logs,
        viral_posts |-> up.viral_posts]

\* A variant that upserts against the average of the items just fetched.
UpdWriteViewAgainstNewAverage(rec) ==
    LET id == rec.profile_id
        pd == rec.profile_data
        new_avg_views == CalculateAverageViews(rec.posts_data)
        profile == [profiles[id] EXCEPT
                       !.tiktok_user_id =
                           IF rec.by_id
                           THEN (IF rec.cached_user_id # NoUserId
                                 THEN rec.cached_user_id ELSE pd.user_id)
                           ELSE pd.user_id,
                       !.follower_count = pd.followers,
                       !.total_likes = pd.likes,
                       !.average_post_views = new_avg_views]
        history == [profile_id |-> id,
                    follower_count |-> profile.follower_count,
                    total_likes |-> profile.total_likes,
                    follower_change |-> profile.follower_count - rec.old_follower_count,
                    likes_change |-> profile.total_likes - rec.old_likes]
        up == UpsertAll([posts |-> posts, post_history |-> post_history], id,
                        rec.posts_data, new_avg_views, Len(rec.posts_data))
    IN [profiles |-> [profiles EXCEPT ![id] = profile],
        profile_history |-> Append(profile_history, history),
        posts |-> up.posts,
        post_history |-> up.post_history,
        alert_logs |-> alert_logs,
        viral_posts |-> up.viral_posts]

\* The unit of work of an update cycle up to db.commit() (update_profile lines
\* 327-364, update_profile_by_id lines 442-479): overwrite the Profile, append
\* one ProfileHistory, upsert every fetched item against the average captured
\* before the fetch.
UpdWriteView(rec) ==
    LET id == rec.profile_id
        pd == rec.profile_data
        new_avg_views == CalculateAverageViews(rec.posts_data)
        profile == [profiles[id] EXCEPT
                       !.tiktok_user_id =
                           IF rec.by_id
                           THEN (IF rec.cached_user_id # NoUserId
                                 THEN rec.cached_user_id ELSE pd.user_id)
                           ELSE pd.user_id,
                       !.follower_count = pd.followers,
                       !.total_likes = pd.likes,
                       !.average_post_views = new_avg_views]
        history == [profile_id |-> id,
                    follower_count |-> profile.follower_count,
                    total_likes |-> profile.total_likes,
                    follower_change |-> profile.follower_count - rec.old_follower_count,
                    likes_change |-> profile.total_likes - rec.old_likes]
        up == UpsertAll([posts |-> posts, post_history |-> post_history], id,
                        rec.posts_data, rec.old_avg_views, Len(rec.posts_data))
    IN [profiles |-> [profiles EXCEPT ![id] = profile],
        profile_history |-> Append(profile_history, history),
        posts |-> up.posts,
        post_history |-> up.post_history,
        alert_logs |-> alert_logs,
        viral_posts |-> up.viral_posts]

\* (A TikTokAPIError is also what _make_request makes of a timeout or a
\* network error, tiktok_client.py lines 234-237.)
\* A variant that goes on to the alerts although the commit raised.
UpdWriteStepAlertsWithoutCommit(t, view) ==
    \/ /\ Commit(view)
       /\ tk' = [tk EXCEPT ![t] = [@ EXCEPT !.pc = "upd_alert",
                                            !.viral_posts = view.viral_posts,
                                            !.committed = TRUE]]
       /\ UNCHANGED ret
    \/ /\ Rollback
       /\ tk' = [tk EXCEPT ![t] = [@ EXCEPT !.pc = "upd_alert",
                                            !.viral_posts = view.viral_posts]]
       /\ UNCHANGED ret

\* A variant in which the Profile overwrite and the ProfileHistory stay
\* stored when a later statement of the unit raises.
UpdWriteStepKeepsPartialWrites(t, view) ==
    \/ /\ Commit(view)
       /\ tk' = [tk EXCEPT ![t] = [@ EXCEPT !.pc = "upd_alert",
                                            !.viral_posts = view.viral_posts,
                                            !.committed = TRUE]]
       /\ UNCHANGED ret
    \/ /\ \E step \in UnitSteps(tk[t]) :
             /\ IF step \in {"post", "commit"}
                THEN /\ profiles' = view.profiles
                     /\ profile_history' = view.profile_history
                     /\ UNCHANGED <<posts, post_history, alert_logs>>
                ELSE Rollback
             /\ FinishRolledBack(t, step)

\* The write of an update cycle: db.commit() goes through (then the alerts
\* follow), or one of the unit's statements raises (then get_db_context rolls
\* back and the exception leaves the cycle).
UpdWriteStep(t, view) ==
    \/ /\ Commit(view)
       /\ tk' = [tk EXCEPT ![t] = [@ EXCEPT !.pc = "upd_alert",
                                            !.viral_posts = view.viral_posts,
                                            !.committed = TRUE]]
       /\ UNCHANGED ret
    \/ /\ Rollback
       /\ \E step \in UnitSteps(tk[t]) : FinishRolledBack(t, step)

UpdWrite(t) ==
    /\ tk[t].pc = "upd_write"
    /\ UpdWriteStep(t, UpdWriteView(tk[t]))
    /\ UNCHANGED <<cvars, opsLeft, sent>>

\* ------------------------------------------------------- _send_viral_alert
\* What one call does to the session, given how telegram.send_viral_alert
\* ended ("ok": result with ok true; "not_ok": result without; "exception").
\* With a result the row is marked first (line 696) and the AlertLog is built
\* next; building its message divides by avg_views, which raises when the
\* average is 0 and lands in the except branch like a failed delivery.
\* (reported_ok notes what the channel reported; it is no column.)
ViralAlertEffect(rec, outcome) ==
    LET item == Head(rec.viral_posts)
        got_result == outcome # "exception"
        message_raises == rec.old_avg_views.s = 0
        success == outcome = "ok" /\ ~message_raises
    IN [pending_flags |-> IF got_result THEN rec.pending_flags \cup {item.row}
                          ELSE rec.pending_flags,
        pending_logs |-> Append(rec.pending_logs,
                                [post |-> item.row, profile_id |-> rec.profile_id,
                                 alert_type |-> "viral_post", success |-> success,
                                 reported_ok |-> outcome = "ok"])]

\* Lines 373-376 / 488-491: the next item of viral_posts is alerted on.
SendViralAlert(t) ==
    /\ tk[t].pc = "upd_alert"
    /\ tk[t].viral_posts # <<>>
    /\ \E outcome \in {"ok", "not_ok", "exception"} :
          LET eff == ViralAlertEffect(tk[t], outcome)
          IN tk' = [tk EXCEPT ![t] = [@ EXCEPT !.viral_posts = Tail(@),
                                               !.pending_flags = eff.pending_flags,
                                               !.pending_logs = eff.pending_logs]]
    /\ sent' = [sent EXCEPT ![Head(tk[t].viral_posts).post_data.post_id] = @ + 1]
    /\ UNCHANGED <<cvars, dbvars, ret, opsLeft>>

\* The end of the unit of work (get_db_context's commit on leaving the block,
\* connection.py line 113): the rows marked and the AlertLogs added while
\* alerting are stored, and the cycle returns the profile.
UpdReturn(t) ==
    /\ tk[t].pc = "upd_alert"
    /\ tk[t].viral_posts = <<>>
    /\ posts' = [i \in 1..Len(posts) |->
                    IF i \in tk[t].pending_flags
                    THEN [posts[i] EXCEPT !.viral_alert_sent = TRUE]
                    ELSE posts[i]]
    /\ alert_logs' = alert_logs \o tk[t].pending_logs
    /\ FinishObserved(t, "profile", "updated")
    /\ UNCHANGED <<cvars, profiles, profile_history, post_history, opsLeft, sent>>

\* ---------------------------------------------------------- remove_profile
\* A variant that also drops the Post rows of the account it sets inactive.
RemoveProfileCascades(t, raw, platform) ==
    /\ tk[t].pc = "idle"
    /\ opsLeft > 0
    /\ opsLeft' = opsLeft - 1
    /\ LET username == NormalizeHandle(raw)
           id == FirstProfileByUsername(profiles, username)
       IN /\ profiles' = IF id = 0 THEN profiles
                         ELSE [profiles EXCEPT ![id].is_active = FALSE]
          /\ posts' = SelectSeq(posts, LAMBDA r : r.profile_id # id)
          /\ ret' = [ret EXCEPT ![t] =
                        [Returned(IF id = 0 THEN "False" ELSE "True") EXCEPT
                            !.deactivated = id # 0 /\ profiles[id].is_active]]
    /\ tk' = [tk EXCEPT ![t] = IdleTask]
    /\ UNCHANGED <<cvars, profile_history, post_history, alert_logs, sent>>

\* TikTokScraper.remove_profile looks the handle up by username alone; the
\* other scrapers inherit BaseScraper.remove_profile, which also matches the
\* platform. A row found is set inactive and True is returned.
RemoveProfile(t, raw, platform) ==
    /\ tk[t].pc = "idle"
    /\ opsLeft > 0
    /\ opsLeft' = opsLeft - 1
    /\ LET username == NormalizeHandle(raw)
           hits == {i \in 1..Len(profiles) :
                       /\ profiles[i].username = username
                       /\ platform # "tiktok" => profiles[i].platform = platform}
           id == IF hits = {} THEN 0 ELSE CHOOSE i \in hits : \A j \in hits : i <= j
       IN /\ profiles' = IF id = 0 THEN profiles
                         ELSE [profiles EXCEPT ![id].is_active = FALSE]
          /\ ret' = [ret EXCEPT ![t] =
                        [Returned(IF id = 0 THEN "False" ELSE "True") EXCEPT
                            !.deactivated = id # 0 /\ profiles[id].is_active]]
    /\ tk' = [tk EXCEPT ![t] = IdleTask]
    /\ UNCHANGED <<cvars, profile_history, posts, post_history, alert_logs, sent>>

\* ----------------------------------------------------- update_all_profiles
\* Lines 888-896: the active profiles grouped by platform, the platforms in
\* the order of their first profile, the profiles of a platform in row order.
RECURSIVE GroupedByPlatform(_, _)
GroupedByPlatform(profs, ids) ==
    IF ids = {} THEN <<>>
    ELSE LET first == CHOOSE i \in ids : \A j \in ids : i <= j
             same == {i \in ids : profs[i].platform = profs[first].platform}
             RECURSIVE InOrder(_)
             InOrder(S) ==
                 IF S = {} THEN <<>>
                 ELSE LET m == CHOOSE i \in S : \A j \in S : i <= j
                      IN <<[platform |-> profs[m].platform, id |-> m,
                            username |-> profs[m].username]>> \o InOrder(S \ {m})
         IN InOrder(same) \o GroupedByPlatform(profs, ids \ same)

\* A variant that loads every account, active or not.
UpdateAllLoadsInactive(t) ==
    /\ tk[t].pc = "idle"
    /\ opsLeft > 0
    /\ opsLeft' = opsLeft - 1
    /\ LET list == GroupedByPlatform(profiles,
                       1..Len(profiles))
           platforms == {list[i].platform : i \in 1..Len(list)}
       IN tk' = [tk EXCEPT ![t] =
                    [IdleTask EXCEPT
                        !.pc = "sync_loop", !.op = "update_all_profiles",
                        !.caller = "sync", !.loaded = list, !.todo = list,
                        !.results = [success |-> 0, failed |-> 0,
                                     by_platform |->
                                         [p \in platforms |->
                                             [success |-> 0, failed |-> 0]]]]]
    /\ ret' = [ret EXCEPT ![t] = NoRet]
    /\ UNCHANGED <<cvars, dbvars, sent>>

UpdateAll(t) ==
    /\ tk[t].pc = "idle"
    /\ opsLeft > 0
    /\ opsLeft' = opsLeft - 1
    /\ LET list == GroupedByPlatform(profiles,
                       {i \in 1..Len(profiles) : profiles[i].is_active})
           platforms == {list[i].platform : i \in 1..Len(list)}
       IN tk' = [tk EXCEPT ![t] =
                    [IdleTask EXCEPT
                        !.pc = "sync_loop", !.op = "update_all_profiles",
                        !.caller = "sync", !.loaded = list, !.todo = list,
                        !.results = [success |-> 0, failed |-> 0,
                                     by_platform |->
                                         [p \in platforms |->
                                             [success |-> 0, failed |-> 0]]]]]
    /\ ret' = [ret EXCEPT ![t] = NoRet]
    /\ UNCHANGED <<cvars, dbvars, sent>>

\* A variant in which a platform outside the registry ends the run.
SyncNextStopsAtUnsupported(t) ==
    /\ tk[t].pc = "sync_loop"
    /\ tk[t].todo # <<>>
    /\ LET e == Head(tk[t].todo)
           rest == SelectSeq(tk[t].todo, LAMBDA x : x.platform # e.platform)
           n == Len(tk[t].todo) - Len(rest)
       IN IF e.platform \notin SupportedPlatforms
          THEN tk' = [tk EXCEPT ![t] =
                         [@ EXCEPT !.todo = <<>>,
                                   !.results = CountFailed(@, e.platform, n)]]
          ELSE IF e.platform # "tiktok"
          THEN tk' = [tk EXCEPT ![t] =
                         SyncCounted([@ EXCEPT !.attempted = Append(@, e.id)],
                                     "raised")]
          ELSE IF e.id \notin 1..Len(profiles)
          THEN tk' = [tk EXCEPT ![t] =
                         SyncCounted([@ EXCEPT !.attempted = Append(@, e.id)],
                                     "None")]
          ELSE tk' = [tk EXCEPT ![t] =
                         BeginUpdate([@ EXCEPT !.attempted = Append(@, e.id)],
                                     tk[t].op, "sync", TRUE, e.id, profiles)]
    /\ UNCHANGED <<cvars, dbvars, ret, opsLeft, sent>>

\* A variant in which the NotImplementedError of a stub scraper is counted
\* like a return.
SyncNextCountsStubAsSuccess(t) ==
    /\ tk[t].pc = "sync_loop"
    /\ tk[t].todo # <<>>
    /\ LET e == Head(tk[t].todo)
           rest == SelectSeq(tk[t].todo, LAMBDA x : x.platform # e.platform)
           n == Len(tk[t].todo) - Len(rest)
       IN IF e.platform \notin SupportedPlatforms
          THEN tk' = [tk EXCEPT ![t] =
                         [@ EXCEPT !.todo = rest,
                                   !.results = CountFailed(@, e.platform, n)]]
          ELSE IF e.platform # "tiktok"
          THEN tk' = [tk EXCEPT ![t] =
                         SyncCounted([@ EXCEPT !.attempted = Append(@, e.id)],
                                     "None")]
          ELSE IF e.id \notin 1..Len(profiles)
          THEN tk' = [tk EXCEPT ![t] =
                         SyncCounted([@ EXCEPT !.attempted = Append(@, e.id)],
                                     "None")]
          ELSE tk' = [tk EXCEPT ![t] =
                         BeginUpdate([@ EXCEPT !.attempted = Append(@, e.id)],
                                     tk[t].op, "sync", TRUE, e.id, profiles)]
    /\ UNCHANGED <<cvars, dbvars, ret, opsLeft, sent>>

\* Lines 900-928, one account (or one unsupported platform) of the loop.
\* ScraperFactory.get_scraper raises ValueError for a platform outside the
\* registry: all its accounts are counted failed at once. The twitter and reddit
\* scrapers raise NotImplementedError from update_profile_by_id. The tiktok
\* scraper starts an update cycle by id.
SyncNext(t) ==
    /\ tk[t].pc = "sync_loop"
    /\ tk[t].todo # <<>>
    /\ LET e == Head(tk[t].todo)
           rest == SelectSeq(tk[t].todo, LAMBDA x : x.platform # e.platform)
           n == Len(tk[t].todo) - Len(rest)
       IN IF e.platform \notin SupportedPlatforms
          THEN tk' = [tk EXCEPT ![t] =
                         [@ EXCEPT !.todo = rest,
                                   !.results = CountFailed(@, e.platform, n)]]
          ELSE IF e.platform # "tiktok"
          THEN tk' = [tk EXCEPT ![t] =
                         SyncCounted([@ EXCEPT !.attempted = Append(@, e.id)],
                                     "raised")]
          ELSE IF e.id \notin 1..Len(profiles)
          THEN tk' = [tk EXCEPT ![t] =
                         SyncCounted([@ EXCEPT !.attempted = Append(@, e.id)],
                                     "None")]
          ELSE tk' = [tk EXCEPT ![t] =
                         BeginUpdate([@ EXCEPT !.attempted = Append(@, e.id)],
                                     tk[t].op, "sync", TRUE, e.id, profiles)]
    /\ UNCHANGED <<cvars, dbvars, ret, opsLeft, sent>>

\* Lines 930-935: the loop is over, the counts are returned.
SyncDone(t) ==
    /\ tk[t].pc = "sync_loop"
    /\ tk[t].todo = <<>>
    /\ ret' = [ret EXCEPT ![t] =
                  [kind |-> "results", results |-> tk[t].results,
                   loaded |-> tk[t].loaded, attempted |-> tk[t].attempted,
                   observed |-> tk[t].observed, deactivated |-> FALSE,
                   failed_step |-> "none", op |-> "none", platform |-> "none",
                   error |-> "none", profile_id |-> 0, posts_saved |-> 0,
                   welcome |-> "none"]]
    /\ tk' = [tk EXCEPT ![t] = IdleTask]
    /\ UNCHANGED <<cvars, dbvars, opsLeft, sent>>

\* ------------------------------------------ module-level add and update
\* add_profile_to_watchlist(username, platform) and update_profile(username,
\* platform) for a platform other than tiktok: ScraperFactory.get_scraper
\* raises ValueError outside the registry, and the add_profile and
\* update_profile of TwitterScraper and RedditScraper raise
\* NotImplementedError before touching the store.
ScraperCall(t, op, platform) ==
    /\ tk[t].pc = "idle"
    /\ opsLeft > 0
    /\ opsLeft' = opsLeft - 1
    /\ platform # "tiktok"
    /\ ret' = [ret EXCEPT ![t] =
                  [Returned("raised") EXCEPT
                      !.op = op, !.platform = platform,
                      !.error = IF platform \in SupportedPlatforms
                                THEN "NotImplementedError" ELSE "ValueError"]]
    /\ UNCHANGED <<cvars, dbvars, tk, sent>>

AddProfileToWatchlist(t, platform) == ScraperCall(t, "add_profile", platform)

UpdateProfileOn(t, platform) == ScraperCall(t, "update_profile", platform)

\* ------------------------------------------- TikTokClient._make_request
\* Callers are coroutines of one event loop, each calling _make_request on a
\* TikTokClient of its own; _global_api_lock is the one module-level
\* asyncio.Lock, held by lock_holder, with the futures of the coroutines
\* waiting for it in lock_waiters.
Callers == 1..MaxCallers
NoCaller == 0

\* A caller: where it is in _make_request, the loop variable attempt, how
\* many calls it still makes, and of its current (or last) call the requests
\* sent, the responses received, the sleeps taken and how it ended; for a
\* call of fetch_recent_posts_by_id also the user_id it was given and whether
\* the defensive check turned it down.
IdleCaller ==
    [pc |-> "idle", attempt |-> 0, left |-> MaxRequests, requests |-> 0,
     statuses |-> <<>>, sleeps |-> <<>>, outcome |-> "none",
     posts_call |-> FALSE, user_id |-> <<>>, rejected |-> FALSE,
     retry_after |-> 0, reset_time |-> 0]

\* The Retry-After and X-RateLimit-Reset headers of a response, 0 for a
\* header that is absent.
NoHints == [retry_after |-> 0, reset_time |-> 0]
Hints == [retry_after : {0, 1, 60}, reset_time : {0, 60}]

\* user_id arguments of fetch_recent_posts_by_id: empty (or None), blank, a
\* secUid.
SecUidInputs == {<<>>, <<" ">>, <<"u">>}

\* What client.get can come back with: a status code (for 202 also whether
\* the body says success = false) or an httpx exception.
Statuses == {"200", "202", "202_success_false", "429", "404", "401", "500",
             "timeout", "http_error"}

ClientInit(callers) ==
    /\ lock_holder = NoCaller
    /\ lock_waiters = <<>>
    /\ cl = [c \in callers |-> IdleCaller]

\* A variant that enters the block without the lock.
CallUnlocked(c) ==
    /\ cl[c].pc = "idle"
    /\ cl[c].left > 0
    /\ cl' = [cl EXCEPT ![c] = [IdleCaller EXCEPT !.pc = "sleeping",
                                                  !.left = cl[c].left]]
    /\ UNCHANGED <<evars, lock_holder, lock_waiters>>

\* Line 152, "async with _global_api_lock": Lock.acquire takes a free lock
\* that nobody waits for at once, and queues a future otherwise. rec is the
\* caller's record at the start of the call.
Acquire(c, rec) ==
    IF lock_holder = NoCaller /\ lock_waiters = <<>>
    THEN /\ lock_holder' = c
         /\ cl' = [cl EXCEPT ![c] = [rec EXCEPT !.pc = "sleeping"]]
         /\ UNCHANGED lock_waiters
    ELSE /\ lock_waiters' = Append(lock_waiters, c)
         /\ cl' = [cl EXCEPT ![c] = [rec EXCEPT !.pc = "waiting"]]
         /\ UNCHANGED lock_holder

\* A call of _make_request (from fetch_profile).
Call(c) ==
    /\ cl[c].pc = "idle"
    /\ cl[c].left > 0
    /\ Acquire(c, [IdleCaller EXCEPT !.left = cl[c].left])
    /\ UNCHANGED evars

\* A variant that notices an empty user_id only inside _make_request, with
\* the lock requested.
FetchRecentPostsByIdChecksLate(c, user_id) ==
    /\ cl[c].pc = "idle"
    /\ cl[c].left > 0
    /\ Acquire(c, [IdleCaller EXCEPT
                       !.left = cl[c].left, !.posts_call = TRUE,
                       !.user_id = user_id,
                       !.rejected = (RStripWs(LStripWs(user_id)) = <<>>)])
    /\ UNCHANGED evars

\* fetch_recent_posts_by_id, lines 363-383: "not user_id or not
\* str(user_id).strip()" raises TikTokAPIError before anything else; otherwise
\* _make_request is called.
FetchRecentPostsById(c, user_id) ==
    /\ cl[c].pc = "idle"
    /\ cl[c].left > 0
    /\ IF user_id = <<>> \/ RStripWs(LStripWs(user_id)) = <<>>
       THEN /\ cl' = [cl EXCEPT ![c] =
                         [IdleCaller EXCEPT
                             !.left = cl[c].left - 1, !.posts_call = TRUE,
                             !.user_id = user_id, !.rejected = TRUE,
                             !.outcome = "TikTokAPIError"]]
            /\ UNCHANGED <<lock_holder, lock_waiters>>
       ELSE Acquire(c, [IdleCaller EXCEPT
                           !.left = cl[c].left, !.posts_call = TRUE,
                           !.user_id = user_id])
    /\ UNCHANGED evars

\* Lock.release wakes the first waiter, which takes the lock when it resumes.
WakeUp(c) ==
    /\ cl[c].pc = "waiting"
    /\ lock_holder = NoCaller
    /\ lock_waiters # <<>> /\ Head(lock_waiters) = c
    /\ lock_holder' = c
    /\ lock_waiters' = Tail(lock_waiters)
    /\ cl' = [cl EXCEPT ![c].pc = "sleeping"]
    /\ UNCHANGED evars

\* Line 156: the one sleep before the retry loop.
PreRequestSleep(c) ==
    /\ cl[c].pc = "sleeping"
    /\ cl' = [cl EXCEPT ![c] = [@ EXCEPT !.pc = "ready", !.attempt = 0,
                                         !.sleeps = Append(@, PRE_REQUEST_DELAY)]]
    /\ UNCHANGED <<evars, lock_holder, lock_waiters>>

\* Lines 161-166: client.get is awaited.
SendRequest(c) ==
    /\ cl[c].pc = "ready"
    /\ cl' = [cl EXCEPT ![c] = [@ EXCEPT !.pc = "in_flight", !.requests = @ + 1]]
    /\ UNCHANGED <<evars, lock_holder, lock_waiters>>

\* A variant that gives up one attempt earlier.
ShouldRetryOneLess(attempt) == attempt < MAX_RETRIES - 1

\* Line 197.
ShouldRetry(attempt) == attempt < MAX_RETRIES

\* A variant that returns the JSON of every 2xx response.
RequestOutcomeAcceptsAccepted(status) ==
    IF status \in {"200", "202", "202_success_false"} THEN "ok"
    ELSE IF status = "429" THEN "RateLimitError"
    ELSE "TikTokAPIError"

\* How _make_request ends on a response that is not retried: a 202 whose
\* body says success = false raises TikTokAPIError (lines 171-181), any other
\* 202 falls through to the status check of line 223 and raises it there;
\* RateLimitError on the last 429; the JSON is returned for 200 alone; a
\* TikTokAPIError otherwise, timeouts and transport errors included.
RequestOutcome(status) ==
    IF status = "202_success_false" THEN "TikTokAPIError"
    ELSE IF status = "429" THEN "RateLimitError"
    ELSE IF status = "200" THEN "ok"
    ELSE "TikTokAPIError"

\* A variant in which an httpx exception leaves the block with the lock
\* still held.
ReceiveKeepsLockOnException(c, status, headers) ==
    /\ cl[c].pc = "in_flight"
    /\ IF status = "429" /\ ShouldRetry(cl[c].attempt)
       THEN /\ cl' = [cl EXCEPT ![c] = [@ EXCEPT !.pc = "backoff",
                                                 !.statuses = Append(@, status),
                                                 !.retry_after = headers.retry_after,
                                                 !.reset_time = headers.reset_time]]
            /\ UNCHANGED <<lock_holder, lock_waiters>>
       ELSE /\ cl' = [cl EXCEPT ![c] = [@ EXCEPT !.pc = "idle",
                                                 !.left = @ - 1,
                                                 !.statuses = Append(@, status),
                                                 !.outcome = RequestOutcome(status)]]
            /\ lock_holder' = IF lock_holder = c /\ status \notin {"timeout", "http_error"}
                              THEN NoCaller ELSE lock_holder
            /\ UNCHANGED lock_waiters
    /\ UNCHANGED evars

\* Lines 168-237: the response (or the httpx exception) arrives. A 429 with
\* retries left goes to the backoff sleep; anything else leaves the block,
\* which releases the lock.
Receive(c, status, headers) ==
    /\ cl[c].pc = "in_flight"
    /\ IF status = "429" /\ ShouldRetry(cl[c].attempt)
       THEN /\ cl' = [cl EXCEPT ![c] = [@ EXCEPT !.pc = "backoff",
                                                 !.statuses = Append(@, status),
                                                 !.retry_after = headers.retry_after,
                                                 !.reset_time = headers.reset_time]]
            /\ UNCHANGED <<lock_holder, lock_waiters>>
       ELSE /\ cl' = [cl EXCEPT ![c] = [@ EXCEPT !.pc = "idle",
                                                 !.left = @ - 1,
                                                 !.statuses = Append(@, status),
                                                 !.outcome = RequestOutcome(status)]]
            /\ lock_holder' = IF lock_holder = c THEN NoCaller ELSE lock_holder
            /\ UNCHANGED lock_waiters
    /\ UNCHANGED evars

\* A variant that waits as long as the Retry-After header says, when there
\* is one.
BackoffSecondsFromHeader(attempt, retry_after, reset_time) ==
    IF retry_after > 0 THEN retry_after ELSE BACKOFF_BASE * 2 ^ attempt

\* Line 199, backoff_seconds = 5 * (2 ** attempt); retry_after and reset_time
\* (lines 189-195) are logged only.
BackoffSeconds(attempt, retry_after, reset_time) == BACKOFF_BASE * 2 ^ attempt

\* Lines 197-206: sleep backoff_seconds, then the next iteration.
Backoff(c) ==
    /\ cl[c].pc = "backoff"
    /\ cl' = [cl EXCEPT ![c] =
                 [@ EXCEPT !.pc = "ready", !.attempt = @ + 1,
                           !.sleeps = Append(@, BackoffSeconds(cl[c].attempt,
                                                               cl[c].retry_after,
                                                               cl[c].reset_time))]]
    /\ UNCHANGED <<evars, lock_holder, lock_waiters>>

\* --------------------------------------------------------- specifications
EngineInit(profs, ops) ==
    /\ profiles = profs
    /\ profile_history = <<>>
    /\ posts = <<>>
    /\ post_history = <<>>
    /\ alert_logs = <<>>
    /\ tk = [t \in Tasks |-> IdleTask]
    /\ ret = [t \in Tasks |-> NoRet]
    /\ opsLeft = ops
    /\ sent = [p \in PostIds |-> 0]

\* The engine on an empty store; the remote reports one secUid and one set of
\* counters, and lists of the content of each account (two items of the first,
\* one of the second) with view counts on either side of the threshold.
RemoteMain ==
    [user_ids |-> {"u1"},
     stats |-> {[followers |-> 10, likes |-> 5]},
     post_ids |-> (<<"a">> :> {"p1", "p3"}) @@ (<<"b">> :> {"p2"}),
     views |-> {100, 600},
     repeats |-> FALSE]

Init ==
    /\ EngineInit(<<>>, MaxOps)
    /\ ClientInit({})

Next ==
    \E t \in Tasks :
          \/ \E raw \in RawHandles, notify \in BOOLEAN : AddProfile(t, raw, notify)
          \/ AddFetch(t, RemoteMain)
          \/ AddSave(t)
          \/ AddNotify(t)
          \/ \E raw \in RawHandles : UpdateProfile(t, raw)
          \/ \E id \in 1..(Len(profiles) + 1) : UpdateProfileById(t, id)
          \/ UpdFetch(t, RemoteMain)
          \/ UpdWrite(t)
          \/ SendViralAlert(t)
          \/ UpdReturn(t)
          \/ \E raw \in RawHandles : RemoveProfile(t, raw, "tiktok")
          \/ UpdateAll(t)
          \/ SyncNext(t)
          \/ SyncDone(t)

Spec == Init /\ [][Next]_vars

\* The adds and update cycles of the engine against a remote whose content
\* lists can name one content id twice.
RemoteRepeats ==
    [user_ids |-> {"u1"},
     stats |-> {[followers |-> 10, likes |-> 5]},
     post_ids |-> (<<"a">> :> {"p1"}) @@ (<<"b">> :> {"p2"}),
     views |-> {100, 600},
     repeats |-> TRUE]

NextRepeats ==
    \E t \in Tasks :
          \/ \E raw \in RawHandles, notify \in BOOLEAN : AddProfile(t, raw, notify)
          \/ AddFetch(t, RemoteRepeats)
          \/ AddSave(t)
          \/ AddNotify(t)
          \/ \E raw \in RawHandles : UpdateProfile(t, raw)
          \/ UpdFetch(t, RemoteRepeats)
          \/ UpdWrite(t)
          \/ SendViralAlert(t)
          \/ UpdReturn(t)

SpecRepeats == Init /\ [][NextRepeats]_vars

\* One run of update_all_profiles over a store of three accounts, each on the
\* tiktok platform, on a platform whose scraper is a stub, or on a platform
\* outside the registry, active or not; no content stored yet.
SeedProfile(username, platform, is_active) ==
    [username |-> username, platform |-> platform, is_active |-> is_active,
     tiktok_user_id |-> "u1", follower_count |-> 10, total_likes |-> 5,
     average_post_views |-> ZeroAvg]

SeedPlatforms == {"tiktok", "twitter", "reddit", "myspace"}

SyncSeeds ==
    {<<SeedProfile(<<"a">>, pa, aa), SeedProfile(<<"b">>, pb, ab),
       SeedProfile(<<"c">>, pc, ac)>> :
        pa \in SeedPlatforms, pb \in SeedPlatforms, pc \in SeedPlatforms,
        aa \in BOOLEAN, ab \in BOOLEAN, ac \in BOOLEAN}

RemoteSync ==
    [user_ids |-> {"u1"},
     stats |-> {[followers |-> 10, likes |-> 5]},
     post_ids |-> (<<"a">> :> {"p1"}) @@ (<<"b">> :> {"p2"}) @@ (<<"c">> :> {"p3"}),
     views |-> {600},
     repeats |-> FALSE]

InitSync ==
    /\ \E profs \in SyncSeeds : EngineInit(profs, 1)
    /\ ClientInit({})

NextSync ==
    \E t \in Tasks :
          \/ UpdateAll(t)
          \/ SyncNext(t)
          \/ \E platform \in SeedPlatforms \ {"tiktok"} : AddProfileToWatchlist(t, platform)
          \/ \E platform \in SeedPlatforms \ {"tiktok"} : UpdateProfileOn(t, platform)
          \/ UpdFetch(t, RemoteSync)
          \/ UpdWrite(t)
          \/ SendViralAlert(t)
          \/ UpdReturn(t)
          \/ SyncDone(t)

\* Every await of the run completes: HTTP calls time out after 30 s and
\* asyncio.sleep returns, so a run that can take a step takes it.
SpecSync == InitSync /\ [][NextSync]_vars /\ WF_vars(NextSync)

\* Update cycles of one stored account against a remote that can report
\* either of two secUids for its handle. The account starts with a secUid, or
\* with none: the column is nullable and both update paths branch on it.
IdSeeds ==
    {<<[SeedProfile(<<"a">>, "tiktok", TRUE) EXCEPT !.tiktok_user_id = u]>> :
        u \in {NoUserId, "u1"}}

RemoteIds ==
    [user_ids |-> {"u1", "u2"},
     stats |-> {[followers |-> 10, likes |-> 5]},
     post_ids |-> (<<"a">> :> {"p1"}),
     views |-> {100, 600},
     repeats |-> FALSE]

InitIds ==
    /\ \E profs \in IdSeeds : EngineInit(profs, MaxOps)
    /\ ClientInit({})

NextIds ==
    \E t \in Tasks :
          \/ UpdateProfile(t, <<"a">>)
          \/ \E id \in 1..Len(profiles) : UpdateProfileById(t, id)
          \/ UpdFetch(t, RemoteIds)
          \/ UpdWrite(t)
          \/ SendViralAlert(t)
          \/ UpdReturn(t)

SpecIds == InitIds /\ [][NextIds]_vars

\* The API client alone: MaxCallers coroutines, each making MaxRequests calls
\* of _make_request, against a remote that answers anything.
InitClient ==
    /\ EngineInit(<<>>, 0)
    /\ ClientInit(Callers)

NextClient ==
    \E c \in Callers :
          \/ Call(c)
          \/ WakeUp(c)
          \/ PreRequestSleep(c)
          \/ SendRequest(c)
          \/ \E status \in Statuses : Receive(c, status, NoHints)
          \/ Backoff(c)

SpecClient == InitClient /\ [][NextClient]_vars

\* The API client when every await of _make_request comes back: the sleeps
\* end, client.get returns or raises within its timeout, and the loop resumes
\* a coroutine whose future the lock has set. Nothing obliges a caller to call.
LockStatuses == {"200", "202_success_false", "429", "500", "timeout"}

InitLock ==
    /\ EngineInit(<<>>, 0)
    /\ lock_holder = NoCaller
    /\ lock_waiters = <<>>
    /\ cl = [c \in Callers |-> [IdleCaller EXCEPT !.left = MaxLockRequests]]

NextLock ==
    \E c \in Callers :
          \/ Call(c)
          \/ WakeUp(c)
          \/ PreRequestSleep(c)
          \/ SendRequest(c)
          \/ \E status \in LockStatuses : Receive(c, status, NoHints)
          \/ Backoff(c)

SpecLock ==
    /\ InitLock
    /\ [][NextLock]_vars
    /\ \A c \in Callers :
          /\ WF_vars(WakeUp(c))
          /\ WF_vars(PreRequestSleep(c))
          /\ WF_vars(SendRequest(c))
          /\ WF_vars(\E status \in LockStatuses : Receive(c, status, NoHints))
          /\ WF_vars(Backoff(c))

\* The API client under calls of fetch_recent_posts_by_id, against a remote
\* that answers 200 or 404 and never rate-limits.
NextPostsClient ==
    \E c \in Callers :
          \/ \E user_id \in SecUidInputs : FetchRecentPostsById(c, user_id)
          \/ WakeUp(c)
          \/ PreRequestSleep(c)
          \/ SendRequest(c)
          \/ \E status \in {"200", "404"} : Receive(c, status, NoHints)

SpecPostsClient == InitClient /\ [][NextPostsClient]_vars

\* One caller of _make_request against a remote whose rate-limit responses
\* carry any retry hints.
InitRetry ==
    /\ EngineInit(<<>>, 0)
    /\ ClientInit({1})

NextRetry ==
    \/ Call(1)
    \/ PreRequestSleep(1)
    \/ SendRequest(1)
    \/ \E status \in Statuses, headers \in Hints : Receive(1, status, headers)
    \/ Backoff(1)

SpecRetry == InitRetry /\ [][NextRetry]_vars

\* Update cycles of one stored account with one stored content item, against
\* a remote that reports view counts around the 10% steps of 1000; the stored
\* average is high enough for nothing to be viral.
ViewSeeds == {0, 1000}

RemoteViews ==
    [user_ids |-> {"u1"},
     stats |-> {[followers |-> 10, likes |-> 5]},
     post_ids |-> (<<"a">> :> {"p1"}),
     views |-> {0, 1000, 1050, 1100, 1101, 1150, 1160},
     repeats |-> FALSE]

InitViews ==
    /\ profiles = <<[SeedProfile(<<"a">>, "tiktok", TRUE) EXCEPT
                        !.average_post_views = Ratio(1000, 1)]>>
    /\ profile_history = <<>>
    /\ \E v \in ViewSeeds :
          posts = <<[CreatePostRecord(1, [post_id |-> "p1", view_count |-> v],
                                      Ratio(1000, 1)) EXCEPT !.is_viral = FALSE]>>
    /\ post_history = <<>>
    /\ alert_logs = <<>>
    /\ tk = [t \in Tasks |-> IdleTask]
    /\ ret = [t \in Tasks |-> NoRet]
    /\ opsLeft = MaxOps
    /\ sent = [p \in PostIds |-> 0]
    /\ ClientInit({})

NextViews ==
    \E t \in Tasks :
          \/ UpdateProfile(t, <<"a">>)
          \/ UpdFetch(t, RemoteViews)
          \/ UpdWrite(t)
          \/ UpdReturn(t)

SpecViews == InitViews /\ [][NextViews]_vars

\* _create_post_record and _upsert_post applied to items and averages around
\* the viral boundary of an average of 100: each step takes one item and one
\* average and applies one of the two to the store.
ViralItems == [post_id : {"p1", "p2"}, view_count : {0, 500, 501}]

ViralAverages == {ZeroAvg, Ratio(100, 1), Ratio(501, 5)}

\* db.add(self._create_post_record(profile_id, post_data, avg_views)), as the
\* loop of add_profile does for each fetched item.
CreatePostStep(t, post_data, avg_views) ==
    /\ tk[t].pc = "idle"
    /\ opsLeft > 0
    /\ opsLeft' = opsLeft - 1
    /\ Len(posts) < MaxPosts
    /\ posts' = Append(posts, CreatePostRecord(1, post_data, avg_views))
    /\ tk' = [tk EXCEPT ![t] = [IdleTask EXCEPT !.op = "_create_post_record",
                                                !.posts_data = <<post_data>>,
                                                !.old_avg_views = avg_views]]
    /\ UNCHANGED <<cvars, profiles, profile_history, post_history, alert_logs,
                   ret, sent>>

\* self._upsert_post(db, profile_id, post_data, old_avg_views), as the loop of
\* an update cycle does for each fetched item.
UpsertPostStep(t, post_data, avg_views) ==
    /\ tk[t].pc = "idle"
    /\ opsLeft > 0
    /\ opsLeft' = opsLeft - 1
    /\ LET r == UpsertPost([posts |-> posts, post_history |-> post_history], 1,
                           post_data, avg_views)
       IN /\ posts' = r.posts
          /\ post_history' = r.post_history
          /\ tk' = [tk EXCEPT ![t] =
                       [IdleTask EXCEPT
                           !.op = "_upsert_post",
                           !.posts_data = <<post_data>>,
                           !.old_avg_views = avg_views,
                           !.viral_posts =
                               IF r.should_alert
                               THEN <<[post_data |-> post_data, row |-> r.row]>>
                               ELSE <<>>]]
    /\ UNCHANGED <<cvars, profiles, profile_history, alert_logs, ret, sent>>

InitViral ==
    /\ EngineInit(<<SeedProfile(<<"a">>, "tiktok", TRUE)>>, MaxOps)
    /\ ClientInit({})

NextViral ==
    \E t \in Tasks, post_data \in ViralItems, avg_views \in ViralAverages :
          \/ CreatePostStep(t, post_data, avg_views)
          \/ UpsertPostStep(t, post_data, avg_views)

SpecViral == InitViral /\ [][NextViral]_vars

\* _calculate_average_views on its own: lists of up to MaxPosts fetched items
\* with view counts around 0, and the Profile the result is assigned to
\* (profile.average_post_views = new_avg_views, lines 337-340).
AverageViewCounts == {0, 1, 2, 3, 100, 250, 1000}

AverageInputs ==
    UNION {[1..n -> [post_id : {"p1"}, view_count : AverageViewCounts]] : n \in 0..MaxPosts}

AverageViewsStep(t, posts_data) ==
    /\ tk[t].pc = "idle"
    /\ opsLeft > 0
    /\ opsLeft' = opsLeft - 1
    /\ profiles' = [profiles EXCEPT
                       ![1].average_post_views = CalculateAverageViews(posts_data)]
    /\ tk' = [tk EXCEPT ![t] = [IdleTask EXCEPT !.op = "_calculate_average_views",
                                                !.posts_data = posts_data]]
    /\ UNCHANGED <<cvars, profile_history, posts, post_history, alert_logs,
                   ret, sent>>

InitAverage ==
    /\ EngineInit(<<SeedProfile(<<"a">>, "tiktok", TRUE)>>, MaxOps)
    /\ ClientInit({})

NextAverage ==
    \E t \in Tasks, posts_data \in AverageInputs : AverageViewsStep(t, posts_data)

SpecAverage == InitAverage /\ [][NextAverage]_vars

\* An account whose first fetch lists six items, one of them far over five
\* times their mean (a fetched list needs six items with views for that),
\* and whose later fetches list the one item over or under the threshold.
BurstList ==
    <<[post_id |-> "p1", view_count |-> 1000], [post_id |-> "p2", view_count |-> 1],
      [post_id |-> "p3", view_count |-> 1], [post_id |-> "p4", view_count |-> 1],
      [post_id |-> "p5", view_count |-> 1], [post_id |-> "p6", view_count |-> 1]>>

RemoteBurst ==
    [user_ids |-> {"u1"},
     stats |-> {[followers |-> 10, likes |-> 5]},
     lists |-> {BurstList,
                <<[post_id |-> "p1", view_count |-> 1000]>>,
                <<[post_id |-> "p1", view_count |-> 500]>>,
                <<>>}]

InitBurst ==
    /\ EngineInit(<<>>, MaxOps)
    /\ ClientInit({})

NextBurst ==
    \E t \in Tasks :
          \/ \E notify \in BOOLEAN : AddProfile(t, <<"a">>, notify)
          \/ AddFetch(t, RemoteBurst)
          \/ AddSave(t)
          \/ AddNotify(t)
          \/ UpdateProfile(t, <<"a">>)
          \/ \E id \in 1..Len(profiles) : UpdateProfileById(t, id)
          \/ UpdFetch(t, RemoteBurst)
          \/ UpdWrite(t)
          \/ SendViralAlert(t)
          \/ UpdReturn(t)

SpecBurst == InitBurst /\ [][NextBurst]_vars

\* Two callers at once (the dashboard's process and the worker's, or two
\* coroutines of one loop): each runs update cycles of the same account, on
\* the store an add of the account with one item has left. Nothing orders the
\* cycles but the statements of each; a write block up to its commit is one
\* step, as it holds no await that gives the loop away.
TaskPair == {"t1", "t2"}

PairSeed ==
    [SeedProfile(<<"a">>, "tiktok", TRUE) EXCEPT !.average_post_views = Ratio(100, 1)]

RemotePair ==
    [user_ids |-> {"u1"},
     stats |-> {[followers |-> 10, likes |-> 5], [followers |-> 12, likes |-> 4]},
     post_ids |-> (<<"a">> :> {"p1"}),
     views |-> {600},
     repeats |-> FALSE]

InitPair ==
    /\ profiles = <<PairSeed>>
    /\ profile_history = <<[profile_id |-> 1,
                            follower_count |-> PairSeed.follower_count,
                            total_likes |-> PairSeed.total_likes,
                            follower_change |-> 0,
                            likes_change |-> 0]>>
    /\ posts = <<CreatePostRecord(1, [post_id |-> "p1", view_count |-> 100],
                                  Ratio(100, 1))>>
    /\ post_history = <<>>
    /\ alert_logs = <<>>
    /\ tk = [t \in TaskPair |-> IdleTask]
    /\ ret = [t \in TaskPair |-> NoRet]
    /\ opsLeft = MaxOps
    /\ sent = [p \in PostIds |-> 0]
    /\ ClientInit({})

NextPair ==
    \E t \in TaskPair :
          \/ UpdateProfile(t, <<"a">>)
          \/ UpdateProfileById(t, 1)
          \/ UpdFetch(t, RemotePair)
          \/ UpdWrite(t)
          \/ SendViralAlert(t)
          \/ UpdReturn(t)

SpecPair == InitPair /\ [][NextPair]_vars

\* The engine on an empty store with a remote whose counters move between
\* two fetches, so that a ProfileHistory of an update has deltas to show.
RemoteCounts ==
    [user_ids |-> {"u1"},
     stats |-> {[followers |-> 10, likes |-> 5], [followers |-> 12, likes |-> 4]},
     post_ids |-> (<<"a">> :> {"p1"}),
     views |-> {100},
     repeats |-> FALSE]

InitCounts ==
    /\ EngineInit(<<>>, MaxOps)
    /\ ClientInit({})

NextCounts ==
    \E t \in Tasks :
          \/ \E notify \in BOOLEAN : AddProfile(t, <<"a">>, notify)
          \/ AddFetch(t, RemoteCounts)
          \/ AddSave(t)
          \/ AddNotify(t)
          \/ UpdateProfile(t, <<"a">>)
          \/ \E id \in 1..Len(profiles) : UpdateProfileById(t, id)
          \/ UpdFetch(t, RemoteCounts)
          \/ UpdWrite(t)
          \/ SendViralAlert(t)
          \/ UpdReturn(t)

SpecCounts == InitCounts /\ [][NextCounts]_vars

\* ------------------------------------------------------------------ claims
IsPrefix(a, b) == Len(a) <= Len(b) /\ SubSeq(b, 1, Len(a)) = a

\* C1: over any sequence of update cycles the notification channel is invoked
\* at most once for one content item, whatever the outcome of each attempt.
C1_NotifiedAtMostOnce == \A p \in PostIds : sent[p] <= 1

\* C2: after a viral notification attempt the item's alert-sent flag is true,
\* whatever the delivery outcome: every stored AlertLog's post carries the flag.
C2_AlertedAfterAttempt ==
    \A i \in 1..Len(alert_logs) : posts[alert_logs[i].post].viral_alert_sent

\* C3: the alert-sent flag of an existing Post row only changes from false to
\* true: no step sets it back to false.
C3_AlertSentNeverReverts ==
    [][\A i \in 1..Len(posts) :
          posts[i].viral_alert_sent =>
              /\ i <= Len(posts')
              /\ posts'[i].viral_alert_sent]_vars

\* C3 witness: an update cycle has upserted (and committed) a row whose flag
\* was already set by an earlier cycle.
C3_Witness ==
    \E t \in Tasks, i \in 1..Len(posts) :
        /\ tk[t].pc = "upd_alert"
        /\ tk[t].committed
        /\ posts[i].viral_alert_sent
        /\ \E k \in 1..Len(tk[t].posts_data) :
              tk[t].posts_data[k].post_id = posts[i].post_id

\* C4: a viral notification is sent only after the cycle's account overwrite,
\* its new ProfileHistory and all its upserts were committed; a cycle whose
\* commit did not happen sends none.
C4_AlertsOnlyAfterCommit ==
    [][sent' # sent =>
          \E t \in Tasks :
              LET rec == tk[t]
                  id == rec.profile_id
              IN /\ rec.pc = "upd_alert"
                 /\ rec.committed
                 /\ profiles[id].follower_count = rec.profile_data.followers
                 /\ profiles[id].total_likes = rec.profile_data.likes
                 /\ profiles[id].average_post_views =
                        CalculateAverageViews(rec.posts_data)
                 /\ profile_history # <<>>
                 /\ profile_history[Len(profile_history)] =
                        [profile_id |-> id,
                         follower_count |-> rec.profile_data.followers,
                         total_likes |-> rec.profile_data.likes,
                         follower_change |->
                             rec.profile_data.followers - rec.old_follower_count,
                         likes_change |-> rec.profile_data.likes - rec.old_likes]
                 /\ \A k \in 1..Len(rec.posts_data) :
                       \E i \in 1..Len(posts) :
                           /\ posts[i].post_id = rec.posts_data[k].post_id
                           /\ posts[i].view_count = rec.posts_data[k].view_count]_vars

\* C4 witness: a notification has been sent in a committed cycle.
C4_Witness ==
    \E t \in Tasks :
        /\ tk[t].pc = "upd_alert"
        /\ tk[t].committed
        /\ tk[t].pending_logs # <<>>

NoDuplicateHandle ==
    \A i, j \in 1..Len(profiles) :
        profiles[i].username = profiles[j].username => i = j

\* C5: a bulk update over three active tiktok accounts where the first and
\* the third update normally and the second one's fetch fails with a network
\* error (a TikTokAPIError) returns success = 2 and failed = 1, and the new
\* state of the first and the third is stored.
C5_NetworkErrorCountedFailed ==
    \A t \in Tasks :
        (/\ ret[t].kind = "results"
         /\ Len(ret[t].loaded) = 3
         /\ \A i \in 1..3 : ret[t].loaded[i].platform = "tiktok"
         /\ ret[t].observed = <<"updated", "TikTokAPIError", "updated">>)
        => /\ ret[t].results.success = 2
           /\ ret[t].results.failed = 1
           /\ \E i \in 1..Len(profile_history) : profile_history[i].profile_id = 1
           /\ \E i \in 1..Len(profile_history) : profile_history[i].profile_id = 3

RECURSIVE SumOver(_, _)
SumOver(f, S) ==
    IF S = {} THEN 0
    ELSE LET x == CHOOSE y \in S : TRUE IN f[x] + SumOver(f, S \ {x})

\* What C6 says of the outcome r of a bulk update.
C6_SyncCounts(r) ==
    LET supported == SelectSeq(r.loaded, LAMBDA e : e.platform \in SupportedPlatforms)
        platforms == DOMAIN r.results.by_platform
    IN /\ {r.loaded[i].id : i \in 1..Len(r.loaded)} =
              {i \in 1..Len(profiles) : profiles[i].is_active}
       /\ r.attempted = [i \in 1..Len(supported) |-> supported[i].id]
       /\ r.results.success + r.results.failed = Len(r.loaded)
       /\ platforms = {r.loaded[i].platform : i \in 1..Len(r.loaded)}
       /\ SumOver([p \in platforms |-> r.results.by_platform[p].success], platforms)
              = r.results.success
       /\ SumOver([p \in platforms |-> r.results.by_platform[p].failed], platforms)
              = r.results.failed

\* C6: a bulk update calls update_profile_by_id exactly once, in order, for
\* every active account it loaded on a platform of the registry, whatever
\* happened to earlier accounts; it ends; success + failed is the number of
\* accounts loaded (all the active ones) and the per-platform counts sum to the
\* totals.
C6_SyncAllCoversEveryAccount ==
    /\ [](\A t \in Tasks : ret[t].kind = "results" => C6_SyncCounts(ret[t]))
    /\ \A t \in Tasks : (tk[t].pc = "sync_loop") ~> (ret[t].kind = "results")

\* C6 witness: of three loaded accounts the first raised, the second was
\* still updated and the third is on a platform outside the registry.
C6_Witness ==
    \E t \in Tasks :
        /\ ret[t].kind = "results"
        /\ Len(ret[t].loaded) = 3
        /\ ret[t].observed = <<"other exception", "updated">>
        /\ ret[t].loaded[3].platform = "myspace"
        /\ ret[t].results.success = 1
        /\ ret[t].results.failed = 2

\* C7: at no time are two requests to the remote API in flight, whatever the
\* number of callers and client instances; a request in flight is its
\* caller's, who holds the lock.
C7_OneRequestInFlight ==
    /\ Cardinality({c \in DOMAIN cl : cl[c].pc = "in_flight"}) <= 1
    /\ \A c \in DOMAIN cl : cl[c].pc = "in_flight" => lock_holder = c

\* C7 witness: a request is in flight while another caller waits for the lock.
C7_Witness ==
    \E c, d \in DOMAIN cl :
        /\ cl[c].pc = "in_flight"
        /\ cl[d].pc = "waiting"
        /\ lock_waiters = <<d>>

AllRateLimited(c) ==
    /\ cl[c].statuses # <<>>
    /\ \A i \in 1..Len(cl[c].statuses) : cl[c].statuses[i] = "429"

CallOver(c) == cl[c].pc = "idle" /\ cl[c].outcome # "none"

\* C8 as stated: a call in which every response was a rate-limit response
\* made exactly 3 attempts and raised RateLimitError.
C8_ThreeAttempts ==
    \A c \in DOMAIN cl :
        (CallOver(c) /\ AllRateLimited(c))
        => cl[c].requests = 3 /\ cl[c].outcome = "RateLimitError"

\* C8 amended: a call in which every response was a rate-limit response made
\* exactly MAX_RETRIES + 1 = 4 attempts (the first and three retries) and
\* raised RateLimitError; no call ever makes a further attempt, and
\* RateLimitError is raised in no other case.
C8_FourAttempts ==
    \A c \in DOMAIN cl :
        /\ cl[c].requests <= MAX_RETRIES + 1
        /\ (CallOver(c) /\ AllRateLimited(c))
           => cl[c].requests = MAX_RETRIES + 1 /\ cl[c].outcome = "RateLimitError"
        /\ cl[c].outcome = "RateLimitError"
           => cl[c].requests = MAX_RETRIES + 1 /\ AllRateLimited(c)

\* C8 witness: a call ended with RateLimitError after four rate-limit
\* responses and the backoff sleeps of 5, 10 and 20 seconds.
C8_Witness ==
    \E c \in DOMAIN cl :
        /\ CallOver(c)
        /\ cl[c].statuses = <<"429", "429", "429", "429">>
        /\ cl[c].sleeps = <<2, 5, 10, 20>>
        /\ cl[c].outcome = "RateLimitError"

\* C11: remove_profile returns True only when it turned an active row
\* inactive; on a row already inactive or a handle without a row it returns
\* False.
C11_RemoveTrueOnlyWhenDeactivated ==
    \A t \in Tasks : ret[t].kind = "True" => ret[t].deactivated

\* The items of the cycle that task t is about to write whose row is stored
\* with the same view count: k is such an item of posts_data, at row r.
UnchangedItems(t) ==
    {kr \in (1..Len(tk[t].posts_data)) \X (1..Len(posts)) :
        /\ kr[2] = FirstPostByPostId(posts, tk[t].posts_data[kr[1]].post_id)
        /\ posts[kr[2]].view_count = tk[t].posts_data[kr[1]].view_count}

RowsWithPostId(ps, post_id) == {i \in 1..Len(ps) : ps[i].post_id = post_id}

HistoryOfPost(h, r) == {i \in 1..Len(h) : h[i].post = r}

\* C12 as stated: upserting an item whose row is stored with the same
\* metrics appends no PostHistory for it, leaves the row's count and both its
\* flags as they were, and adds no second row of its content id.
C12_UpsertUnchangedItem ==
    [][\A t \in Tasks :
          (tk[t].pc = "upd_write" /\ tk'[t].pc = "upd_alert") =>
              \A kr \in UnchangedItems(t) :
                  /\ HistoryOfPost(post_history', kr[2]) = HistoryOfPost(post_history, kr[2])
                  /\ posts'[kr[2]] = posts[kr[2]]
                  /\ RowsWithPostId(posts', posts[kr[2]].post_id) =
                         RowsWithPostId(posts, posts[kr[2]].post_id)]_vars

\* C12 amended: the same, except that the viral flag of the row is set when
\* the item is over the threshold of the average the cycle compares it with
\* (which can differ from the average of the earlier upsert); it is never
\* cleared, and against the same average nothing changes.
C12_UpsertUnchangedItemSameAverage ==
    [][\A t \in Tasks :
          (tk[t].pc = "upd_write" /\ tk'[t].pc = "upd_alert") =>
              \A kr \in UnchangedItems(t) :
                  /\ HistoryOfPost(post_history', kr[2]) = HistoryOfPost(post_history, kr[2])
                  /\ posts'[kr[2]] =
                         [posts[kr[2]] EXCEPT !.is_viral =
                             @ \/ IsViral(posts[kr[2]].view_count, tk[t].old_avg_views)]
                  /\ RowsWithPostId(posts', posts[kr[2]].post_id) =
                         RowsWithPostId(posts, posts[kr[2]].post_id)]_vars

\* C12 witness: a cycle has written an item whose row was stored viral with
\* the same view count; the item is under the cycle's threshold, and the row
\* is as it was, without a PostHistory.
C12_Witness ==
    \E t \in Tasks :
        /\ tk[t].pc = "upd_alert"
        /\ tk[t].committed
        /\ \E k \in 1..Len(tk[t].posts_data) :
              LET item == tk[t].posts_data[k]
                  r == FirstPostByPostId(posts, item.post_id)
              IN /\ r # 0
                 /\ posts[r].view_count = item.view_count
                 /\ posts[r].is_viral
                 /\ ~IsViral(item.view_count, tk[t].old_avg_views)
                 /\ HistoryOfPost(post_history, r) = {}

\* C13: the unit of work of an add and of an update cycle is atomic: when a
\* statement before its commit (or the commit) raises, nothing of the unit is
\* stored and the store is as it was; when it commits, the Profile, the
\* ProfileHistory and every fetched item are stored in the same step.
C13_UnitOfWorkAtomic ==
    [][\A t \in Tasks :
          /\ (tk[t].pc \in {"add_save", "upd_write"}
              /\ tk'[t].pc \notin {"add_notify", "upd_alert"})
             => UNCHANGED dbvars
          /\ (tk[t].pc = "add_save" /\ tk'[t].pc = "add_notify")
             => /\ Len(profiles') = Len(profiles) + 1
                /\ Len(profile_history') = Len(profile_history) + 1
                /\ Len(posts') = Len(posts) + Len(tk[t].posts_data)
          /\ (tk[t].pc = "upd_write" /\ tk'[t].pc = "upd_alert")
             => /\ Len(profile_history') = Len(profile_history) + 1
                /\ \A k \in 1..Len(tk[t].posts_data) :
                      \E i \in 1..Len(posts') :
                          /\ posts'[i].post_id = tk[t].posts_data[k].post_id
                          /\ posts'[i].view_count = tk[t].posts_data[k].view_count]_vars

\* C13 witness: a unit of work raised while a fetched item was written, after
\* the Profile and ProfileHistory writes of the same unit; the store holds
\* the one account, the one snapshot and no content of the add before it.
C13_Witness ==
    \E t \in Tasks :
        /\ ret[t].kind = "raised"
        /\ ret[t].failed_step = "post"
        /\ Len(profiles) = 1
        /\ Len(profile_history) = 1
        /\ posts = <<>>

\* The AlertLogs of content id p among logs.
AlertLogsOf(logs, p) ==
    Cardinality({i \in 1..Len(logs) : posts[logs[i].post].post_id = p})

\* C14: every call of the notification channel for a viral item has exactly
\* one AlertLog of that item (stored, or added to the session of the cycle
\* that is alerting), and the AlertLog's success is true exactly when the
\* channel reported success.
C14_OneAlertLogPerAttempt ==
    /\ \A p \in PostIds :
          sent[p] = AlertLogsOf(alert_logs, p)
                      + SumOver([t \in Tasks |-> AlertLogsOf(tk[t].pending_logs, p)],
                                Tasks)
    /\ \A i \in 1..Len(alert_logs) :
          alert_logs[i].success = alert_logs[i].reported_ok
    /\ \A t \in Tasks : \A i \in 1..Len(tk[t].pending_logs) :
          tk[t].pending_logs[i].success = tk[t].pending_logs[i].reported_ok

\* C15: no two Post rows carry the same content id, also when a fetched
\* list names one id twice.
C15_UniquePostIds ==
    \A i, j \in 1..Len(posts) : posts[i].post_id = posts[j].post_id => i = j

\* C16: a stored non-empty secUid is never changed by a later update cycle,
\* whatever secUid the remote reports.
C16_StoredIdNeverChanges ==
    [][\A i \in 1..Len(profiles) :
          profiles[i].tiktok_user_id # NoUserId
              => profiles'[i].tiktok_user_id = profiles[i].tiktok_user_id]_vars

\* C17: the posts fetch of an update cycle goes out with the stored secUid
\* when there is one; when there is none it goes out with a secUid resolved
\* from the handle, and the commit of that cycle stores that secUid.
C17_CachedIdUsedForPosts ==
    [][\A t \in Tasks :
          LET stored == profiles[tk[t].profile_id].tiktok_user_id
          IN /\ (tk[t].pc = "upd_fetch" /\ tk'[t].pc = "upd_write")
                   => /\ stored # NoUserId => tk'[t].posts_user_id = stored
                      /\ stored = NoUserId => tk'[t].posts_user_id \in RemoteIds.user_ids
             /\ (tk[t].pc = "upd_write" /\ tk'[t].pc = "upd_alert" /\ stored = NoUserId)
                   => profiles'[tk[t].profile_id].tiktok_user_id = tk[t].posts_user_id]_vars

\* The first cycle of an account without a cached secUid, by id, has fetched
\* the posts with the resolved secUid u2 and stored it.
C17_Witness ==
    \E t \in Tasks :
        /\ tk[t].pc = "upd_alert"
        /\ tk[t].by_id
        /\ tk[t].committed
        /\ Len(profile_history) = 1
        /\ tk[t].posts_user_id = "u2"
        /\ tk[t].profile_data.user_id = "u1"
        /\ profiles[tk[t].profile_id].tiktok_user_id = "u2"

\* The accounts of platform among those a bulk update loaded.
LoadedOn(r, platform) == SelectSeq(r.loaded, LAMBDA e : e.platform = platform)

WasAttempted(r, id) == \E k \in 1..Len(r.attempted) : r.attempted[k] = id

\* C18: a bulk update counts every account of a platform outside the
\* registry as failed and calls no update for it (none is attempted, nothing
\* of it is stored), and calls the update of every loaded account of the
\* registry's platforms.
C18_UnsupportedPlatformFailed ==
    \A t \in Tasks :
        ret[t].kind = "results" =>
            \A i \in 1..Len(ret[t].loaded) :
                LET r == ret[t]
                    e == r.loaded[i]
                IN IF e.platform \in SupportedPlatforms
                   THEN WasAttempted(r, e.id)
                   ELSE /\ ~WasAttempted(r, e.id)
                        /\ \A h \in 1..Len(profile_history) :
                               profile_history[h].profile_id # e.id
                        /\ r.results.by_platform[e.platform] =
                               [success |-> 0, failed |-> Len(LoadedOn(r, e.platform))]
                        /\ r.results.failed >= Len(LoadedOn(r, e.platform))

\* C18 witness: the first two accounts loaded are on a platform outside the
\* registry, the tiktok account after them was updated.
C18_Witness ==
    \E t \in Tasks :
        /\ ret[t].kind = "results"
        /\ Len(ret[t].loaded) = 3
        /\ ret[t].loaded[1].platform = "myspace"
        /\ ret[t].loaded[2].platform = "myspace"
        /\ ret[t].loaded[3].platform = "tiktok"
        /\ ret[t].attempted = <<ret[t].loaded[3].id>>
        /\ ret[t].observed = <<"updated">>
        /\ ret[t].results.failed = 2
        /\ ret[t].results.success = 1

StubPlatforms == {"twitter", "reddit"}

\* C19: twitter and reddit are in the registry; an add or an update on one of
\* them raises NotImplementedError and stores nothing; a bulk update counts
\* every account of such a platform as failed, none as success, and still
\* calls the update of every other loaded account of the registry's platforms.
C19_StubsCountedFailed ==
    /\ StubPlatforms \subseteq SupportedPlatforms
    /\ \A t \in Tasks :
          ret[t].platform \in StubPlatforms =>
              /\ ret[t].kind = "raised"
              /\ ret[t].error = "NotImplementedError"
              /\ profile_history = <<>> /\ posts = <<>>
    /\ \A t \in Tasks :
          ret[t].kind = "results" =>
              LET r == ret[t]
              IN /\ \A p \in StubPlatforms \cap DOMAIN r.results.by_platform :
                       r.results.by_platform[p] =
                           [success |-> 0, failed |-> Len(LoadedOn(r, p))]
                 /\ \A i \in 1..Len(r.loaded) :
                       r.loaded[i].platform \in SupportedPlatforms
                           => WasAttempted(r, r.loaded[i].id)
                 /\ Len(r.observed) = Len(LoadedOn(r, "tiktok"))

\* C19 witness: a twitter and a reddit account were counted failed and the
\* tiktok account after them was updated.
C19_Witness ==
    \E t \in Tasks :
        /\ ret[t].kind = "results"
        /\ Len(ret[t].loaded) = 3
        /\ ret[t].loaded[1].platform = "twitter"
        /\ ret[t].loaded[2].platform = "reddit"
        /\ ret[t].loaded[3].platform = "tiktok"
        /\ ret[t].observed = <<"updated">>
        /\ ret[t].results.by_platform["twitter"] = [success |-> 0, failed |-> 1]
        /\ ret[t].results.by_platform["reddit"] = [success |-> 0, failed |-> 1]
        /\ ret[t].results.success = 1

\* C20: an add whose welcome notification failed (the channel answered not
\* ok, or the call raised) returns the profile, and its Profile row, its
\* initial ProfileHistory and one Post row per fetched item are stored.
C20_AddSurvivesFailedWelcome ==
    \A t \in Tasks :
        ret[t].welcome \in {"not_ok", "exception"} =>
            LET id == ret[t].profile_id
            IN /\ ret[t].kind = "profile"
               /\ id \in 1..Len(profiles)
               /\ profiles[id].is_active
               /\ Cardinality({h \in 1..Len(profile_history) :
                                  profile_history[h].profile_id = id}) = 1
               /\ Cardinality({i \in 1..Len(posts) : posts[i].profile_id = id})
                      = ret[t].posts_saved

\* C20 witness: the welcome notification of an add that stored two items
\* raised.
C20_Witness ==
    \E t \in Tasks :
        /\ ret[t].welcome = "exception"
        /\ ret[t].kind = "profile"
        /\ ret[t].posts_saved = 2
        /\ Len(posts) = 2

\* C21: no step of an add, an update, a remove or a bulk update deletes a
\* row: the history and alert tables only grow at the end, Profile and Post
\* rows stay the rows of the same handle and content id. A remove changes no
\* table but profiles, and there at most the is_active flag of the first row
\* with the handle.
C21_NothingDeleted ==
    [][/\ IsPrefix(profile_history, profile_history')
       /\ IsPrefix(post_history, post_history')
       /\ IsPrefix(alert_logs, alert_logs')
       /\ Len(profiles) <= Len(profiles')
       /\ \A i \in 1..Len(profiles) : profiles'[i].username = profiles[i].username
       /\ Len(posts) <= Len(posts')
       /\ \A i \in 1..Len(posts) :
             /\ posts'[i].post_id = posts[i].post_id
             /\ posts'[i].profile_id = posts[i].profile_id
       /\ \A t \in Tasks :
             (ret'[t].kind \in {"True", "False"} /\ opsLeft' # opsLeft)
                 => /\ UNCHANGED <<profile_history, posts, post_history, alert_logs>>
                    /\ Len(profiles') = Len(profiles)
                    /\ \A i \in 1..Len(profiles) :
                          profiles'[i] # profiles[i]
                              => /\ profiles'[i] = [profiles[i] EXCEPT !.is_active = FALSE]
                                 /\ ret'[t].kind = "True"
                                 /\ \A j \in 1..(i - 1) :
                                       profiles[j].username # profiles[i].username]_vars

\* C21 witness: a remove has set inactive an account that has stored content
\* and history.
C21_Witness ==
    \E t \in Tasks :
        /\ ret[t].kind = "True"
        /\ ret[t].deactivated
        /\ \E i \in 1..Len(profiles) :
              /\ ~profiles[i].is_active
              /\ \E k \in 1..Len(posts) : posts[k].profile_id = i
              /\ \E h \in 1..Len(profile_history) : profile_history[h].profile_id = i

\* C22: an account that is inactive when a bulk update loads its list is not
\* in that list, no update cycle is started for it, its row stays as it was
\* and no history, content or alert of it is written by the run.
C22_InactiveNotSynced ==
    \A i \in 1..Len(profiles) :
        ~profiles[i].is_active =>
            /\ profiles[i] = SeedProfile(profiles[i].username, profiles[i].platform, FALSE)
            /\ \A h \in 1..Len(profile_history) : profile_history[h].profile_id # i
            /\ \A k \in 1..Len(posts) : posts[k].profile_id # i
            /\ \A a \in 1..Len(alert_logs) : alert_logs[a].profile_id # i
            /\ \A t \in Tasks :
                  /\ \A k \in 1..Len(tk[t].loaded) : tk[t].loaded[k].id # i
                  /\ \A k \in 1..Len(tk[t].attempted) : tk[t].attempted[k] # i
                  /\ tk[t].profile_id # i
                  /\ \A k \in 1..Len(ret[t].loaded) : ret[t].loaded[k].id # i
                  /\ \A k \in 1..Len(ret[t].attempted) : ret[t].attempted[k] # i

\* C22 witness: a bulk update over three tiktok accounts, the second of them
\* inactive, has updated the first and the third and written an alert.
C22_Witness ==
    \E t \in Tasks :
        /\ ret[t].kind = "results"
        /\ Len(profiles) = 3
        /\ \A i \in 1..3 : profiles[i].platform = "tiktok"
        /\ ~profiles[2].is_active
        /\ ret[t].attempted = <<1, 3>>
        /\ ret[t].observed = <<"updated", "updated">>
        /\ alert_logs # <<>>

TransportFailures == {"timeout", "http_error"}

\* C23: a call of _make_request does not end on the first timeout or network
\* error of the call: when it ends on one, an earlier attempt of the same
\* call had failed that way and was retried.
C23_TransportFailureRetried ==
    \A c \in DOMAIN cl :
        (/\ CallOver(c)
         /\ cl[c].statuses # <<>>
         /\ cl[c].statuses[Len(cl[c].statuses)] \in TransportFailures)
        => \E i \in 1..(Len(cl[c].statuses) - 1) :
               cl[c].statuses[i] \in TransportFailures

\* C24: a 202 response whose body says success = false ends the call at once
\* with TikTokAPIError; its JSON is never returned.
C24_AcceptedFailureRaises ==
    \A c \in DOMAIN cl :
        \A i \in 1..Len(cl[c].statuses) :
            cl[c].statuses[i] = "202_success_false"
                => /\ i = Len(cl[c].statuses)
                   /\ CallOver(c)
                   /\ cl[c].outcome = "TikTokAPIError"

\* C24 witness: a call ended on such a 202 after a retried rate-limit
\* response.
C24_Witness ==
    \E c \in DOMAIN cl :
        /\ CallOver(c)
        /\ cl[c].statuses = <<"429", "202_success_false">>
        /\ cl[c].outcome = "TikTokAPIError"

InLockQueue(c) == \E i \in 1..Len(lock_waiters) : lock_waiters[i] = c

\* C25: fetch_recent_posts_by_id with an empty or blank user_id is turned
\* down with TikTokAPIError, and a call turned down has sent no request, has
\* not slept inside the lock, and neither holds nor waits for the lock.
C25_EmptyIdRejectedBeforeLock ==
    \A c \in DOMAIN cl :
        /\ (cl[c].posts_call /\ RStripWs(LStripWs(cl[c].user_id)) = <<>>)
               => cl[c].rejected
        /\ cl[c].rejected
               => /\ cl[c].pc = "idle"
                  /\ cl[c].outcome = "TikTokAPIError"
                  /\ cl[c].requests = 0
                  /\ cl[c].statuses = <<>>
                  /\ cl[c].sleeps = <<>>
                  /\ lock_holder # c
                  /\ ~InLockQueue(c)

\* C25 witness: a blank user_id was turned down while another caller's
\* request was in flight under the lock.
C25_Witness ==
    \E c, d \in DOMAIN cl :
        /\ cl[c].rejected
        /\ cl[c].user_id = <<" ">>
        /\ cl[d].pc = "in_flight"
        /\ lock_holder = d

\* C26: whenever a request is in flight, the sleep the caller took last
\* before sending it was the pre-request delay of 2 seconds.
C26_DelayBeforeEveryAttempt ==
    \A c \in DOMAIN cl :
        cl[c].pc = "in_flight"
            => /\ cl[c].sleeps # <<>>
               /\ cl[c].sleeps[Len(cl[c].sleeps)] = PRE_REQUEST_DELAY

\* C27: after the pre-request delay the sleeps of a call are 5, 10 and 20
\* seconds, in this order, one before each retry, whatever the Retry-After and
\* X-RateLimit-Reset headers of the rate-limit responses say.
C27_BackoffSchedule ==
    \A c \in DOMAIN cl :
        /\ IsPrefix(cl[c].sleeps, <<PRE_REQUEST_DELAY, 5, 10, 20>>)
        /\ \A k \in 2..Len(cl[c].sleeps) : cl[c].sleeps[k - 1] < cl[c].sleeps[k]
        /\ cl[c].pc \in {"ready", "in_flight"} => Len(cl[c].sleeps) = cl[c].attempt + 1

\* C27 witness: the third retry is about to be sent after sleeps of 5, 10 and
\* 20 seconds, the last rate-limit response having asked for 60 seconds.
C27_Witness ==
    \E c \in DOMAIN cl :
        /\ cl[c].pc = "ready"
        /\ cl[c].attempt = 3
        /\ cl[c].retry_after = 60
        /\ cl[c].reset_time = 60
        /\ cl[c].sleeps = <<2, 5, 10, 20>>

\* The commit of an update cycle of task t that fetched one item whose row is
\* stored: old and new are the stored and the fetched view count, added the
\* number of PostHistory rows the commit appends.
UpsertCommitted(t) ==
    /\ tk[t].pc = "upd_write"
    /\ tk'[t].pc = "upd_alert"
    /\ Len(tk[t].posts_data) = 1
    /\ FirstPostByPostId(posts, tk[t].posts_data[1].post_id) # 0

StoredViews(t) == posts[FirstPostByPostId(posts, tk[t].posts_data[1].post_id)].view_count

FetchedViews(t) == tk[t].posts_data[1].view_count

\* C28 as stated: the upsert of a stored item appends one PostHistory when
\* the fetched view count differs from the stored one by more than 10% of the
\* stored one, and none otherwise.
C28_SnapshotIffOverTenPercent ==
    [][\A t \in Tasks :
          UpsertCommitted(t) =>
              Len(post_history') - Len(post_history) =
                  IF 10 * Abs(FetchedViews(t) - StoredViews(t)) > StoredViews(t)
                  THEN 1 ELSE 0]_vars

\* C28 amended: the same for a stored view count above 0 (1000 to 1150 appends
\* one PostHistory, 1000 to 1050 and 1000 to 1100 none); for a stored view
\* count of 0 nothing is appended, whatever was fetched.
C28_SnapshotIffOverTenPercentOfPositive ==
    [][\A t \in Tasks :
          UpsertCommitted(t) =>
              /\ Len(post_history') - Len(post_history) =
                     IF /\ StoredViews(t) > 0
                        /\ 10 * Abs(FetchedViews(t) - StoredViews(t)) > StoredViews(t)
                     THEN 1 ELSE 0
              /\ (StoredViews(t) = 1000 /\ FetchedViews(t) = 1150)
                     => post_history' = Append(post_history,
                                               [post |-> 1, view_count |-> 1150])
              /\ (StoredViews(t) = 1000 /\ FetchedViews(t) \in {1050, 1100})
                     => post_history' = post_history]_vars

\* C28 witness: the first cycle took the stored item to 1150 views and wrote
\* the one PostHistory.
C28_Witness ==
    \E t \in Tasks :
        /\ tk[t].pc = "upd_alert"
        /\ Len(profile_history) = 1
        /\ posts[1].view_count = 1150
        /\ post_history = <<[post |-> 1, view_count |-> 1150]>>

\* C29: of two PostHistory rows of one item with none of that item between
\* them, the later records a view count that differs by more than 10% from
\* the one the earlier records.
C29_SnapshotsDifferOverTenPercent ==
    \A i, j \in 1..Len(post_history) :
        (/\ i < j
         /\ post_history[i].post = post_history[j].post
         /\ \A k \in (i + 1)..(j - 1) : post_history[k].post # post_history[i].post)
        => 10 * Abs(post_history[j].view_count - post_history[i].view_count)
               > post_history[i].view_count

\* C30: a row made by _create_post_record, in add_profile or for a new item
\* of an update, is flagged viral exactly when view_count > average x 5; the
\* upsert of a stored row flags it exactly when that holds or it was flagged
\* before, and offers it for an alert only when that holds. With an average of
\* 100 a row of 501 views is flagged and a row of 500 views not flagged before
\* stays unflagged.
C30_ViralIsStrictlyGreater ==
    [][\A t \in Tasks :
          opsLeft' # opsLeft =>
              LET item == tk'[t].posts_data[1]
                  avg == tk'[t].old_avg_views
                  over == item.view_count * avg.n > 5 * avg.s
                  existing == IF tk'[t].op = "_upsert_post"
                              THEN FirstPostByPostId(posts, item.post_id) ELSE 0
                  row == IF existing = 0 THEN Len(posts') ELSE existing
                  before == existing # 0 /\ posts[existing].is_viral
              IN /\ posts'[row].is_viral = (over \/ before)
                 /\ tk'[t].viral_posts # <<>> => over
                 /\ (avg = Ratio(100, 1) /\ item.view_count = 501)
                        => posts'[row].is_viral
                 /\ (avg = Ratio(100, 1) /\ item.view_count = 500 /\ ~before)
                        => ~posts'[row].is_viral]_vars

\* C30 witness: against an average of 100, _create_post_record has made an
\* unflagged row of 500 views and _upsert_post has then made a flagged row of
\* 501 views.
C30_Witness ==
    \E t \in Tasks :
        /\ tk[t].op = "_upsert_post"
        /\ tk[t].old_avg_views = Ratio(100, 1)
        /\ Len(posts) = 2
        /\ posts[1].view_count = 500 /\ ~posts[1].is_viral
        /\ posts[2].view_count = 501 /\ posts[2].is_viral

\* C31: the commit of an update cycle flags every fetched item that exceeds
\* the threshold against the average the Profile row held before the cycle
\* (an item flagged earlier stays flagged) and lists for an alert exactly
\* the items that exceed it and whose row is new or not yet alerted on; the
\* commit of an add flags each new row against the average of the fetched
\* list, which it also stores.
C31_ViralAgainstOldAverage ==
    [][\A t \in Tasks :
          /\ (tk[t].pc = "upd_write" /\ tk'[t].pc = "upd_alert") =>
                \A k \in 1..Len(tk[t].posts_data) :
                    LET item == tk[t].posts_data[k]
                        before == profiles[tk[t].profile_id].average_post_views
                        over == IsViral(item.view_count, before)
                        existing == FirstPostByPostId(posts, item.post_id)
                        row == FirstPostByPostId(posts', item.post_id)
                    IN /\ row # 0
                       /\ posts'[row].is_viral =
                              (over \/ (existing # 0 /\ posts[existing].is_viral))
                       /\ (\E i \in 1..Len(tk'[t].viral_posts) :
                                tk'[t].viral_posts[i].post_data = item)
                              = (over /\ (existing = 0 \/ ~posts[existing].viral_alert_sent))
          /\ (tk[t].pc = "add_save" /\ tk'[t].pc = "add_notify") =>
                LET avg == CalculateAverageViews(tk[t].posts_data)
                IN /\ profiles'[Len(profiles')].average_post_views = avg
                   /\ \A k \in 1..Len(tk[t].posts_data) :
                         /\ posts'[Len(posts) + k].is_viral =
                                IsViral(tk[t].posts_data[k].view_count, avg)
                         /\ ~posts'[Len(posts) + k].viral_alert_sent]_vars

\* C31 witness: a cycle has committed an item of 600 views against a stored
\* average of 100; it is flagged and listed for an alert, and the average
\* stored now is 600.
C31_Witness ==
    \E t \in Tasks :
        /\ tk[t].pc = "upd_alert"
        /\ tk[t].committed
        /\ tk[t].old_avg_views = Ratio(100, 1)
        /\ profiles[tk[t].profile_id].average_post_views = Ratio(600, 1)
        /\ Len(tk[t].viral_posts) = 1
        /\ tk[t].viral_posts[1].post_data.view_count = 600
        /\ posts[tk[t].viral_posts[1].row].is_viral

\* C32: every add and every update cycle that commits appends exactly one
\* ProfileHistory carrying the fetched counters; its deltas are zero on an add
\* and, on an update, the fetched counters minus the counters the cycle
\* captured from the Profile row before fetching; any other step, a cycle
\* that fails included, leaves the ProfileHistory table as it is.
C32_OneSnapshotPerCycle ==
    [][\A t \in Tasks :
          /\ (tk[t].pc # "upd_fetch" /\ tk'[t].pc = "upd_fetch") =>
                /\ tk'[t].old_follower_count = profiles[tk'[t].profile_id].follower_count
                /\ tk'[t].old_likes = profiles[tk'[t].profile_id].total_likes
          /\ IF tk[t].pc = "add_save" /\ tk'[t].pc = "add_notify"
             THEN profile_history' =
                      Append(profile_history,
                             [profile_id |-> Len(profiles'),
                              follower_count |-> tk[t].profile_data.followers,
                              total_likes |-> tk[t].profile_data.likes,
                              follower_change |-> 0,
                              likes_change |-> 0])
             ELSE IF tk[t].pc = "upd_write" /\ tk'[t].pc = "upd_alert"
             THEN profile_history' =
                      Append(profile_history,
                             [profile_id |-> tk[t].profile_id,
                              follower_count |-> tk[t].profile_data.followers,
                              total_likes |-> tk[t].profile_data.likes,
                              follower_change |-> tk[t].profile_data.followers
                                                      - tk[t].old_follower_count,
                              likes_change |-> tk[t].profile_data.likes
                                                   - tk[t].old_likes])
             ELSE profile_history' = profile_history]_vars

\* C32 witness: an add and an update cycle have returned the profile, and
\* the snapshot of the update shows two followers gained and one like lost.
C32_Witness ==
    \E t \in Tasks :
        /\ ret[t].kind = "profile"
        /\ ret[t].profile_id = 0
        /\ Len(profiles) = 1
        /\ Len(profile_history) = 2
        /\ profile_history[1].follower_change = 0
        /\ profile_history[1].likes_change = 0
        /\ profile_history[2].follower_count = 12
        /\ profile_history[2].follower_change = 2
        /\ profile_history[2].likes_change = -1

\* The ProfileHistory before row i of the same account, 0 when i is its first.
PrecedingSnapshot(i) ==
    LET before == {j \in 1..(i - 1) :
                      profile_history[j].profile_id = profile_history[i].profile_id}
    IN IF before = {} THEN 0 ELSE CHOOSE j \in before : \A k \in before : k <= j

\* C33: the deltas of every ProfileHistory but an account's first are its
\* counters minus the counters of the account's ProfileHistory just before
\* it, whatever the interleaving of the update cycles of the account.
C33_DeltasAgainstPrecedingSnapshot ==
    \A i \in 1..Len(profile_history) :
        LET j == PrecedingSnapshot(i)
        IN j # 0 =>
              /\ profile_history[i].follower_change =
                     profile_history[i].follower_count - profile_history[j].follower_count
              /\ profile_history[i].likes_change =
                     profile_history[i].total_likes - profile_history[j].total_likes

\* C36: of two update cycles under way at once, at most one has delivered
\* the notification of a given stored item.
C36_AtMostOneCycleNotifies ==
    \A t1 \in TaskPair, t2 \in TaskPair :
        t1 # t2 =>
            ~ \E i \in 1..Len(tk[t1].pending_logs), j \in 1..Len(tk[t2].pending_logs) :
                  /\ tk[t1].pending_logs[i].post = tk[t2].pending_logs[j].post
                  /\ tk[t1].pending_logs[i].reported_ok
                  /\ tk[t2].pending_logs[j].reported_ok

\* The indices of the items of a list with a strictly positive view count.
PositiveItems(posts_data) == {i \in 1..Len(posts_data) : posts_data[i].view_count > 0}

\* C34: the average _calculate_average_views returns is the arithmetic mean
\* of the view counts of exactly the items with a strictly positive count,
\* and 0 when the list is empty or no item has one; it is defined (no
\* division by zero) for every list.
C34_MeanOfPositiveViews ==
    \A t \in Tasks :
        tk[t].op = "_calculate_average_views" =>
            LET posts_data == tk[t].posts_data
                avg == profiles[1].average_post_views
                pos == PositiveItems(posts_data)
            IN /\ avg.n >= 1
               /\ IF pos = {}
                  THEN avg.s = 0
                  ELSE avg.s * Cardinality(pos) =
                          avg.n * SumOver([i \in pos |-> posts_data[i].view_count], pos)

\* C34 witness: of the items with 0 and 250 views the average is 250, not 125.
C34_Witness ==
    \E t \in Tasks :
        /\ tk[t].op = "_calculate_average_views"
        /\ Len(tk[t].posts_data) = 2
        /\ tk[t].posts_data[1].view_count = 0
        /\ tk[t].posts_data[2].view_count = 250
        /\ profiles[1].average_post_views = Ratio(250, 1)

\* C35: no step clears the is_viral of a stored Post or removes the row; an
\* update cycle that commits sets it on every fetched item over the
\* threshold, and a row that has it keeps it when a later cycle fetches the
\* item under the threshold.
C35_ViralNeverCleared ==
    [][/\ Len(posts') >= Len(posts)
       /\ \A i \in 1..Len(posts) : posts[i].is_viral => posts'[i].is_viral
       /\ \A t \in Tasks :
             (tk[t].pc = "upd_write" /\ tk'[t].pc = "upd_alert") =>
                 \A k \in 1..Len(tk[t].posts_data) :
                     IsViral(tk[t].posts_data[k].view_count, tk[t].old_avg_views) =>
                         posts'[FirstPostByPostId(posts', tk[t].posts_data[k].post_id)].is_viral]_vars

\* C35 witness: an update cycle has just stored 100 views, against an average
\* of 600, for an item that was flagged by the cycle before; the flag is kept.
C35_Witness ==
    \E t \in Tasks :
        /\ tk[t].pc = "upd_alert"
        /\ tk[t].committed
        /\ tk[t].old_avg_views = Ratio(600, 1)
        /\ Len(tk[t].posts_data) = 1
        /\ tk[t].posts_data[1].view_count = 100
        /\ tk[t].viral_posts = <<>>
        /\ LET row == FirstPostByPostId(posts, tk[t].posts_data[1].post_id)
           IN /\ posts[row].view_count = 100
              /\ posts[row].is_viral

\* C37: a caller that is not inside _make_request does not hold the global
\* lock, however its last request ended, and the holder is inside the block;
\* when every HTTP attempt and every sleep ends, each caller waiting for the
\* lock comes to hold it and each request comes to its end, with the JSON or
\* with an exception.
C37_LockReleasedAndEveryRequestEnds ==
    /\ [](\A c \in Callers : cl[c].pc \in {"idle", "waiting"} => lock_holder # c)
    /\ [](lock_holder # NoCaller =>
              cl[lock_holder].pc \in {"sleeping", "ready", "in_flight", "backoff"})
    /\ \A c \in Callers : (cl[c].pc = "waiting") ~> (lock_holder = c)
    /\ \A c \in Callers :
          (cl[c].pc # "idle") ~>
              (cl[c].pc = "idle"
               /\ cl[c].outcome \in {"ok", "RateLimitError", "TikTokAPIError"})

\* C37 witness: the first caller's request ran out of retries and raised,
\* and the second caller, whose request was queued behind it, holds the lock
\* with nobody left in the queue.
C37_Witness ==
    /\ cl[1].pc = "idle"
    /\ cl[1].outcome = "RateLimitError"
    /\ cl[1].requests = MAX_RETRIES + 1
    /\ lock_holder = 2
    /\ lock_waiters = <<>>
    /\ cl[2].pc = "in_flight"
    /\ cl[2].left = MaxLockRequests
    /\ cl[1].left = MaxLockRequests - 1

\* C38: when a fetch of add_profile, update_profile or update_profile_by_id
\* fails, the store is as it was when the call started. (Between the start
\* of a call and its fetch the store changes only by the reactivation of
\* add_profile, which the task notes in reactivated: the first conjunct. The
\* second is the claim: the failing fetch writes nothing and the call has not
\* reactivated the row.)
C38_FailedFetchLeavesStore ==
    [][\A t \in Tasks :
          /\ (tk[t].pc \notin {"add_fetch", "upd_fetch"}
              /\ tk'[t].pc \in {"add_fetch", "upd_fetch"}) =>
                 \/ UNCHANGED dbvars
                 \/ /\ tk'[t].reactivated
                    /\ ~profiles[tk'[t].profile_id].is_active
          /\ (tk[t].pc \in {"add_fetch", "upd_fetch"}
              /\ tk'[t].pc \notin {"add_fetch", "upd_fetch", "add_save", "upd_write"}) =>
                 /\ UNCHANGED dbvars
                 /\ ~tk[t].reactivated]_vars

\* C39: while add_profile stores a new account the notification channel is
\* not invoked for any item, and every Post it inserts has viral_alert_sent
\* false, the viral ones too; an update cycle that commits puts on its alert
\* list every fetched item that is over the threshold against the average
\* stored before the cycle and whose row is not marked, and it does not
\* return before the channel has been invoked for each item of the list.
C39_ViralAtAddAlertedByUpdate ==
    [][\A t \in Tasks :
          /\ tk[t].pc \in {"add_fetch", "add_save", "add_notify"} =>
                /\ sent' = sent
                /\ alert_logs' = alert_logs
          /\ (tk[t].pc = "add_save" /\ tk'[t].pc = "add_notify") =>
                /\ Len(posts') = Len(posts) + Len(tk[t].posts_data)
                /\ \A i \in (Len(posts) + 1)..Len(posts') : ~posts'[i].viral_alert_sent
          /\ (tk[t].pc = "upd_write" /\ tk'[t].pc = "upd_alert") =>
                \A k \in 1..Len(tk[t].posts_data) :
                    LET item == tk[t].posts_data[k]
                        existing == FirstPostByPostId(posts, item.post_id)
                    IN (/\ existing # 0
                        /\ ~posts[existing].viral_alert_sent
                        /\ IsViral(item.view_count,
                                   profiles[tk[t].profile_id].average_post_views)) =>
                           \E i \in 1..Len(tk'[t].viral_posts) :
                               /\ tk'[t].viral_posts[i].post_data = item
                               /\ tk'[t].viral_posts[i].row = existing
          /\ (tk[t].pc = "upd_alert" /\ tk'[t] # tk[t]) =>
                IF tk[t].viral_posts = <<>>
                THEN sent' = sent
                ELSE /\ tk'[t].pc = "upd_alert"
                     /\ tk'[t].viral_posts = Tail(tk[t].viral_posts)
                     /\ sent' = [sent EXCEPT
                                    ![Head(tk[t].viral_posts).post_data.post_id] = @ + 1]]_vars

\* C39 witness: the first update cycle after an add that stored p1 as viral
\* (1000 views against a mean of 167.5) has fetched it again over the
\* threshold and has invoked the channel for it, for the first time.
C39_Witness ==
    \E t \in Tasks :
        /\ tk[t].pc = "upd_alert"
        /\ tk[t].old_avg_views = Ratio(1005, 6)
        /\ tk[t].viral_posts = <<>>
        /\ Len(profile_history) = 2
        /\ Len(posts) = 6
        /\ posts[1].post_id = "p1"
        /\ posts[1].is_viral
        /\ ~posts[1].viral_alert_sent
        /\ tk[t].pending_flags = {1}
        /\ sent["p1"] = 1

C10_ReactivateKeepsHistory ==
    [][\A t \in Tasks :
          /\ (tk[t].pc = "idle" /\ tk'[t].op = "add_profile") =>
                LET existing == FirstProfileByUsername(profiles, tk'[t].username)
                IN (existing # 0 /\ ~profiles[existing].is_active) =>
                       /\ tk'[t].pc = "upd_fetch"
                       /\ tk'[t].profile_id = existing
                       /\ tk'[t].reactivated
                       /\ profiles'[existing].is_active
                       /\ Len(profiles') = Len(profiles)
                       /\ UNCHANGED <<profile_history, posts, post_history>>
          /\ (tk[t].op = "add_profile" /\ tk[t].reactivated) =>
                /\ Len(profiles') = Len(profiles)
                /\ profiles'[tk[t].profile_id].is_active
                /\ IsPrefix(profile_history, profile_history')
                /\ Len(posts') >= Len(posts)
                /\ \A i \in 1..Len(posts) :
                      /\ posts'[i].post_id = posts[i].post_id
                      /\ posts'[i].profile_id = posts[i].profile_id]_vars

\* C10 witness: the update cycle of a reactivating add_profile has committed
\* on a store that held a snapshot and a post of the account from before.
C10_Witness ==
    \E t \in Tasks :
        /\ tk[t].reactivated
        /\ tk[t].pc = "upd_alert"
        /\ tk[t].committed
        /\ Len(profile_history) >= 2
        /\ \E i \in 1..Len(posts) :
              /\ posts[i].profile_id = tk[t].profile_id
              /\ \A k \in 1..Len(tk[t].posts_data) :
                    tk[t].posts_data[k].post_id # posts[i].post_id

====
